---- MODULE Spec2Model ----
(***************************************************************************)
(* A model of spicey: the node index, the netlist parser's finalization,   *)
(* the dense linear solvers and the transient (TRAN) engine.               *)
(*                                                                         *)
(* Numbers.  All quantities are exact: integers, or rationals <<n, d>>     *)
(* with d > 0 in lowest terms.  Voltages are counted in units of 1e-6 V,   *)
(* so the switch tolerance and the Newton tolerance (both 1e-6) are 1.     *)
(* EPS (1e-15 in the source) is 1/2: times are counted in units of         *)
(* 2e-15 s, so the 1e-12 of the time rounding and of the time              *)
(* de-duplication is 500.  A switch model's default Roff (1e12) is held as *)
(* 1e9, the largest power of ten among TLC's integers.                     *)
(***************************************************************************)
EXTENDS Integers, Sequences, FiniteSets, TLC

(***************************************************************************)
(* Exact rational arithmetic.                                              *)
(***************************************************************************)
Abs(i) == IF i < 0 THEN -i ELSE i

\* Each operand is bound once (a \in {p}) before it is used, so that an
\* operand that is itself a long expression is evaluated one time; the common
\* factors are cancelled before the products are formed, to keep the
\* intermediate integers small.
RECURSIVE Gcd(_, _)
Gcd(a, b) ==
  IF b = 0 THEN a ELSE CHOOSE g \in {Gcd(c, d) : c \in {b}, d \in {a % b}} : TRUE

Gcd1(a, b) == CHOOSE g \in {IF h = 0 THEN 1 ELSE h : h \in {Gcd(Abs(a), Abs(b))}} : TRUE

Rat(n, d) ==
  CHOOSE r \in {IF n = 0 THEN <<0, 1>>
                ELSE <<((IF d < 0 THEN -1 ELSE 1) * n) \div g,
                       ((IF d < 0 THEN -1 ELSE 1) * d) \div g>> :
                  g \in {Gcd(Abs(n), Abs(d))}} : TRUE

RInt(i) == <<i, 1>>
RAdd(p, q) ==
  CHOOSE r \in {LET g == Gcd1(a[2], b[2])
                IN  Rat(a[1] * (b[2] \div g) + b[1] * (a[2] \div g), (a[2] \div g) * b[2]) :
                  a \in {p}, b \in {q}} : TRUE
RSub(p, q) ==
  CHOOSE r \in {LET g == Gcd1(a[2], b[2])
                IN  Rat(a[1] * (b[2] \div g) - b[1] * (a[2] \div g), (a[2] \div g) * b[2]) :
                  a \in {p}, b \in {q}} : TRUE
RMul(p, q) ==
  CHOOSE r \in {Rat((a[1] \div Gcd1(a[1], b[2])) * (b[1] \div Gcd1(b[1], a[2])),
                    (a[2] \div Gcd1(b[1], a[2])) * (b[2] \div Gcd1(a[1], b[2]))) :
                  a \in {p}, b \in {q}} : TRUE
RDiv(p, q) ==
  CHOOSE r \in {Rat((a[1] \div Gcd1(a[1], b[1])) * (b[2] \div Gcd1(b[2], a[2])),
                    (a[2] \div Gcd1(b[2], a[2])) * (b[1] \div Gcd1(a[1], b[1]))) :
                  a \in {p}, b \in {q}} : TRUE
RLt(p, q) ==
  \E a \in {p}, b \in {q} :
    a[1] * (b[2] \div Gcd1(a[2], b[2])) < b[1] * (a[2] \div Gcd1(a[2], b[2]))
RLe(p, q) ==
  \E a \in {p}, b \in {q} :
    a[1] * (b[2] \div Gcd1(a[2], b[2])) <= b[1] * (a[2] \div Gcd1(a[2], b[2]))
RAbs(p) == <<Abs(p[1]), p[2]>>
RMax(p, q) == IF RLt(p, q) THEN q ELSE p
RMin(p, q) == IF RLt(q, p) THEN q ELSE p
\* Math.ceil and Math.floor of a rational
RFloor(p) == p[1] \div p[2]
RCeil(p) == -((-p[1]) \div p[2])
IMax(a, b) == IF a < b THEN b ELSE a
IMin(a, b) == IF a < b THEN a ELSE b

(***************************************************************************)
(* Names.  String.toUpperCase and String.toLowerCase on the names the      *)
(* model uses.                                                             *)
(***************************************************************************)
NodeNames == {"0", "n1", "N1", "out", "Out", "OUT", "b", "B"}

toUpperCase(s) ==
  CASE s \in {"n1", "N1"} -> "N1"
    [] s \in {"out", "Out", "OUT"} -> "OUT"
    [] s \in {"b", "B"} -> "B"
    [] s \in {"sw", "SW", "Sw"} -> "SW"
    [] s \in {"d", "D"} -> "D"
    [] OTHER -> s

toLowerCase(s) ==
  CASE s \in {"n1", "N1"} -> "n1"
    [] s \in {"out", "Out", "OUT"} -> "out"
    [] s \in {"b", "B"} -> "b"
    [] s \in {"sw", "SW", "Sw"} -> "sw"
    [] s \in {"d", "D"} -> "d"
    [] s = "VSWITCH" -> "vswitch"
    [] s = "Ron" -> "ron"
    [] s = "Roff" -> "roff"
    [] s \in {"Von", "VON"} -> "von"
    [] s \in {"Voff", "VOFF"} -> "voff"
    [] s \in {"Vt", "VT"} -> "vt"
    [] s \in {"Vh", "VH"} -> "vh"
    [] OTHER -> s

(***************************************************************************)
(* NodeIndex.  map is the Map from upper-cased key to id, rev the array of *)
(* display names; rev[id + 1] here is rev[id] in the source.               *)
(***************************************************************************)
NodeIndexNew == [map |-> ("0" :> 0), rev |-> <<"0">>]

count(ni) == Len(ni.rev)

\* getOrCreate with raw string equality as the lookup key
getOrCreateRawKey(ni, name) ==
  IF name \in DOMAIN ni.map
    THEN [nodes |-> ni, id |-> ni.map[name]]
    ELSE [nodes |-> [map |-> (name :> Len(ni.rev)) @@ ni.map,
                     rev |-> Append(ni.rev, name)],
          id |-> Len(ni.rev)]

\* the index after getOrCreate(name), and the id it returns
getOrCreate(ni, name) ==
  LET key == toUpperCase(name)
  IN  IF key \in DOMAIN ni.map
        THEN [nodes |-> ni, id |-> ni.map[key]]
        ELSE [nodes |-> [map |-> (key :> Len(ni.rev)) @@ ni.map,
                         rev |-> Append(ni.rev, name)],
              id |-> Len(ni.rev)]

\* map.has and map.get under the upper-cased key, as NodeIndex.get does
has(ni, name) == toUpperCase(name) \in DOMAIN ni.map
get(ni, name) == ni.map[toUpperCase(name)]

matrixIndexOfNode(nodeId) == IF nodeId = 0 THEN -1 ELSE nodeId - 1

VARIABLES nodes, ret

niVars == <<nodes, ret>>

NIInit ==
  /\ nodes = NodeIndexNew
  /\ ret = [name |-> "0", id |-> 0]

\* one call nodes.getOrCreate(name); ret is the call's argument and result
NIGetOrCreate(name) ==
  /\ ret' = [name |-> name, id |-> getOrCreate(nodes, name).id]
  /\ nodes' = getOrCreate(nodes, name).nodes

NINext == \E name \in NodeNames : NIGetOrCreate(name)


(***************************************************************************)
(***************************************************************************)
(* parseNetlist.  A netlist is a sequence of tokenized lines; the regular  *)
(* expression tokenizer and the SI-suffix number parser are not modelled,  *)
(* a line carries its tokens' values.  Model parameters are rationals, or  *)
(* NaN; a source's waveform is kept as its type only.                      *)
(***************************************************************************)
\* null is a record, a missing number the empty tuple, NaN the fraction 0/0
NULL == [null |-> TRUE]
UNDEFINED == <<>>
NaN == <<0, 0>>

CircuitNew ==
  [nodes |-> NodeIndexNew,
   R |-> <<>>, C |-> <<>>, L |-> <<>>, V |-> <<>>, S |-> <<>>, D |-> <<>>,
   analyses |-> [ac |-> NULL, tran |-> NULL],
   probes |-> [tran |-> <<>>],
   skipped |-> 0,
   models |-> [vswitch |-> <<>>, diode |-> <<>>]]

\* Map.set and Map.get on a map held as a function from keys
MapSet(m, k, v) == (k :> v) @@ m
MapGet(m, k) == IF k \in DOMAIN m THEN m[k] ELSE NULL

\* the node index after getOrCreate of each name of a sequence, in order
RECURSIVE nodesAfter(_, _)
nodesAfter(ni, names) ==
  IF names = <<>> THEN ni
  ELSE nodesAfter(getOrCreate(ni, Head(names)).nodes, Tail(names))

nodeId(ni, names, i) == getOrCreate(nodesAfter(ni, SubSeq(names, 1, i - 1)), names[i]).id

\* the loop over the assignments of a .model <name> SW|VSWITCH line
RECURSIVE vswitchAssign(_, _)
vswitchAssign(acc, params) ==
  IF params = <<>> THEN acc
  ELSE LET key == toLowerCase(Head(params)[1])
           value == Head(params)[2]
           nxt == IF value = NaN THEN acc
                  ELSE CASE key = "ron" -> [acc EXCEPT !.model.Ron = value]
                         [] key = "roff" -> [acc EXCEPT !.model.Roff = value]
                         [] key = "von" -> [acc EXCEPT !.model.Von = value]
                         [] key = "voff" -> [acc EXCEPT !.model.Voff = value]
                         [] key = "vt" -> [acc EXCEPT !.vt = value]
                         [] key = "vh" -> [acc EXCEPT !.vh = value]
                         [] OTHER -> acc
       IN  vswitchAssign(nxt, Tail(params))

\* a switch model whose Vt and Vh leave Von and Voff at their own values
vswitchModelNoVt(name, params) ==
  vswitchAssign([model |-> [name |-> name, Ron |-> <<1, 1>>,
                            Roff |-> <<1000000000, 1>>,
                            Von |-> <<0, 1>>, Voff |-> <<0, 1>>],
                 vt |-> UNDEFINED, vh |-> UNDEFINED], params).model

vswitchModel(name, params) ==
  LET a == vswitchAssign([model |-> [name |-> name, Ron |-> <<1, 1>>,
                                     Roff |-> <<1000000000, 1>>,
                                     Von |-> <<0, 1>>, Voff |-> <<0, 1>>],
                          vt |-> UNDEFINED, vh |-> UNDEFINED], params)
      Vh == IF a.vh = UNDEFINED THEN <<0, 1>> ELSE a.vh
  IN  IF a.vt # UNDEFINED
        THEN [a.model EXCEPT !.Von = RAdd(a.vt, RDiv(Vh, <<2, 1>>)),
                             !.Voff = RSub(a.vt, RDiv(Vh, <<2, 1>>))]
        ELSE a.model

\* .model <name> D: Is and N keep their defaults here (1e-14, 1)
diodeModel(name) == [name |-> name, Is |-> "1e-14", N |-> 1]

\* .print tran V(a) V(b) ...: probes are deduplicated ignoring case
RECURSIVE addProbes(_, _)
addProbes(probes, names) ==
  IF names = <<>> THEN probes
  ELSE addProbes(
         IF \E i \in 1..Len(probes) :
              toUpperCase(probes[i]) = toUpperCase(Head(names))
           THEN probes ELSE Append(probes, Head(names)),
         Tail(names))

\* the body of the loop over the lines, for one line that is not .end
parseLine(c, ln) ==
  CASE ln.k = "R" ->
         [c EXCEPT !.nodes = nodesAfter(c.nodes, <<ln.n1, ln.n2>>),
                   !.R = Append(@, [name |-> ln.name,
                                    n1 |-> nodeId(c.nodes, <<ln.n1, ln.n2>>, 1),
                                    n2 |-> nodeId(c.nodes, <<ln.n1, ln.n2>>, 2),
                                    R |-> ln.val])]
    [] ln.k = "C" ->
         [c EXCEPT !.nodes = nodesAfter(c.nodes, <<ln.n1, ln.n2>>),
                   !.C = Append(@, [name |-> ln.name,
                                    n1 |-> nodeId(c.nodes, <<ln.n1, ln.n2>>, 1),
                                    n2 |-> nodeId(c.nodes, <<ln.n1, ln.n2>>, 2),
                                    C |-> ln.val, vPrev |-> 0, iPrev |-> <<0, 1>>])]
    [] ln.k = "L" ->
         [c EXCEPT !.nodes = nodesAfter(c.nodes, <<ln.n1, ln.n2>>),
                   !.L = Append(@, [name |-> ln.name,
                                    n1 |-> nodeId(c.nodes, <<ln.n1, ln.n2>>, 1),
                                    n2 |-> nodeId(c.nodes, <<ln.n1, ln.n2>>, 2),
                                    L |-> ln.val, iPrev |-> <<0, 1>>, vPrev |-> 0])]
    [] ln.k = "V" ->
         [c EXCEPT !.nodes = nodesAfter(c.nodes, <<ln.n1, ln.n2>>),
                   !.V = Append(@, [name |-> ln.name,
                                    n1 |-> nodeId(c.nodes, <<ln.n1, ln.n2>>, 1),
                                    n2 |-> nodeId(c.nodes, <<ln.n1, ln.n2>>, 2),
                                    dc |-> ln.dc,
                                    acMag |-> IF "acMag" \in DOMAIN ln
                                                THEN ln.acMag ELSE <<0, 1>>,
                                    acPhaseDeg |-> IF "acPhaseDeg" \in DOMAIN ln
                                                     THEN ln.acPhaseDeg ELSE 0,
                                    waveform |-> ln.waveform,
                                    index |-> -1])]
    [] ln.k = "S" ->
         LET ns == <<ln.n1, ln.n2, ln.ncPos, ln.ncNeg>>
         IN  [c EXCEPT !.nodes = nodesAfter(c.nodes, ns),
                       !.S = Append(@, [name |-> ln.name,
                                        n1 |-> nodeId(c.nodes, ns, 1),
                                        n2 |-> nodeId(c.nodes, ns, 2),
                                        ncPos |-> nodeId(c.nodes, ns, 3),
                                        ncNeg |-> nodeId(c.nodes, ns, 4),
                                        modelName |-> toLowerCase(ln.model),
                                        model |-> NULL, isOn |-> FALSE])]
    [] ln.k = "D" ->
         IF ln.ntok = 4
           THEN [c EXCEPT !.nodes = nodesAfter(c.nodes, <<ln.n1, ln.n2>>),
                          !.D = Append(@, [name |-> ln.name,
                                           nPlus |-> nodeId(c.nodes, <<ln.n1, ln.n2>>, 1),
                                           nMinus |-> nodeId(c.nodes, <<ln.n1, ln.n2>>, 2),
                                           modelName |-> toLowerCase(ln.model),
                                           model |-> NULL, vdPrev |-> 0])]
           ELSE [c EXCEPT !.skipped = @ + 1]
    [] ln.k = "model" ->
         IF toLowerCase(ln.type) \in {"vswitch", "sw"}
           THEN [c EXCEPT !.models.vswitch =
                   MapSet(@, toLowerCase(ln.name), vswitchModel(ln.name, ln.params))]
           ELSE IF toLowerCase(ln.type) = "d"
             THEN [c EXCEPT !.models.diode =
                     MapSet(@, toLowerCase(ln.name), diodeModel(ln.name))]
             ELSE [c EXCEPT !.skipped = @ + 1]
    [] ln.k = "tran" ->
         [c EXCEPT !.analyses.tran = [dt |-> ln.dt, tstop |-> ln.tstop]]
    [] ln.k = "ac" ->
         [c EXCEPT !.analyses.ac = [mode |-> ln.mode, N |-> ln.N,
                                    f1 |-> ln.f1, f2 |-> ln.f2]]
    [] ln.k = "print" ->
         [c EXCEPT !.probes.tran = addProbes(@, ln.probes)]
    [] OTHER -> [c EXCEPT !.skipped = @ + 1]

\* a parser that numbers the sources from the node count, ground included
assignIndicesFromCount(c) ==
  [c EXCEPT !.V = [i \in 1..Len(c.V) |->
                     [c.V[i] EXCEPT !.index = count(c.nodes) + (i - 1)]]]

\* vs.index = nNodes + i for every source, after the loop over the lines
assignIndices(c) ==
  [c EXCEPT !.V = [i \in 1..Len(c.V) |->
                     [c.V[i] EXCEPT !.index = (count(c.nodes) - 1) + (i - 1)]]]

\* a lookup that takes the first model of the map whatever the name
anyModel(m, k) == IF DOMAIN m = {} THEN NULL ELSE m[CHOOSE j \in DOMAIN m : TRUE]

lookupModel(m, k) == MapGet(m, k)

NoError == [kind |-> "none"]

\* the first switch, then the first diode, whose model name has no .model
firstUnresolved(c) ==
  LET badS == {i \in 1..Len(c.S) : lookupModel(c.models.vswitch, c.S[i].modelName) = NULL}
      badD == {i \in 1..Len(c.D) : lookupModel(c.models.diode, c.D[i].modelName) = NULL}
      minOf(X) == CHOOSE i \in X : \A j \in X : i <= j
  IN  IF badS # {}
        THEN [kind |-> "switch", modelName |-> c.S[minOf(badS)].modelName,
              name |-> c.S[minOf(badS)].name]
        ELSE IF badD # {}
          THEN [kind |-> "diode", modelName |-> c.D[minOf(badD)].modelName,
                name |-> c.D[minOf(badD)].name]
          ELSE NoError

resolveModels(c) ==
  [c EXCEPT !.S = [i \in 1..Len(c.S) |->
                     [c.S[i] EXCEPT !.model = lookupModel(c.models.vswitch, c.S[i].modelName),
                                    !.isOn = FALSE]],
            !.D = [i \in 1..Len(c.D) |->
                     [c.D[i] EXCEPT !.model = lookupModel(c.models.diode, c.D[i].modelName)]]]

\* the size of the MNA system
Nvar(c) == (count(c.nodes) - 1) + Len(c.V)

MaxLines == 3
MaxModelLines == 2
MaxParams == 2

\* the assignments of a switch model line: name=value, any case, NaN for a
\* value that is no number
SwitchParams ==
  { <<"Von", <<2, 1>> >>, <<"VOFF", <<5, 1>> >>, <<"Vt", <<3, 1>> >>,
    <<"Vt", NaN>>, <<"VH", <<1, 1>> >>, <<"Vh", <<-1, 1>> >> }

SwitchParamSeqs ==
  UNION { [1..n -> SwitchParams] : n \in 0..MaxParams }

\* a time-varying waveform, held as the values it takes
PWL(levels) == [type |-> "pwl", levels |-> levels]

\* the lines a netlist is made of
NetlistLines ==
  { [k |-> "R", name |-> "R1", n1 |-> "n1", n2 |-> "0", val |-> 1],
    [k |-> "C", name |-> "C1", n1 |-> "OUT", n2 |-> "0", val |-> 1],
    [k |-> "V", name |-> "V1", n1 |-> "N1", n2 |-> "0", dc |-> 5, waveform |-> NULL],
    [k |-> "V", name |-> "V2", n1 |-> "b", n2 |-> "0", dc |-> 0,
     waveform |-> PWL({0, 5})],
    [k |-> "S", name |-> "S1", n1 |-> "out", n2 |-> "0", ncPos |-> "n1",
     ncNeg |-> "0", model |-> "SW"],
    [k |-> "S", name |-> "S2", n1 |-> "out", n2 |-> "0", ncPos |-> "B",
     ncNeg |-> "0", model |-> "D"],
    [k |-> "D", name |-> "D1", n1 |-> "n1", n2 |-> "Out", model |-> "D", ntok |-> 4],
    [k |-> "D", name |-> "D2", n1 |-> "n1", n2 |-> "Out", model |-> "SW", ntok |-> 5],
    [k |-> "model", name |-> "Sw", type |-> "VSWITCH",
     params |-> << <<"Von", <<5, 1>> >>, <<"Voff", <<2, 1>> >> >>],
    [k |-> "model", name |-> "sw", type |-> "SW", params |-> <<>>],
    [k |-> "model", name |-> "SW", type |-> "sw",
     params |-> << <<"VT", <<5, 2>> >>, <<"VH", <<1, 10>> >> >>],
    [k |-> "model", name |-> "d", type |-> "SW",
     params |-> << <<"Ron", <<1, 1>> >>, <<"Roff", NaN>> >>],
    [k |-> "model", name |-> "D", type |-> "D", params |-> <<>>],
    [k |-> "model", name |-> "SW", type |-> "NPN", params |-> <<>>],
    [k |-> "tran", dt |-> <<1, 1>>, tstop |-> <<10, 1>>],
    [k |-> "ac", mode |-> "dec", N |-> 1, f1 |-> 1, f2 |-> 10],
    [k |-> "print", probes |-> <<"out", "OUT", "n1">>],
    [k |-> "G", name |-> "G1"] }

\* the lines of the netlists that vary a switch model's parameters
ModelLines ==
  { [k |-> "model", name |-> "Sw", type |-> "VSWITCH", params |-> ps] :
      ps \in SwitchParamSeqs }
  \cup { [k |-> "S", name |-> "S1", n1 |-> "out", n2 |-> "0", ncPos |-> "n1",
          ncNeg |-> "0", model |-> "SW"] }

\* lastLine is the line the loop has just handled
VARIABLES ckt, phase, perr, nread, acStarted, tranStarted, lastLine
pVars == <<ckt, phase, perr, nread, acStarted, tranStarted, lastLine>>

PInit ==
  /\ ckt = CircuitNew
  /\ phase = "parse"
  /\ perr = NoError
  /\ lastLine = [k |-> "none"]
  /\ nread = 0
  /\ acStarted = FALSE
  /\ tranStarted = FALSE

\* one turn of the loop over the lines
ParseLineStep(ln) ==
  /\ phase = "parse"
  /\ nread < MaxLines
  /\ ckt' = parseLine(ckt, ln)
  /\ nread' = nread + 1
  /\ lastLine' = ln
  /\ UNCHANGED <<phase, perr, acStarted, tranStarted>>

\* .end or the end of the text: indices, then model resolution
ParseFinish ==
  /\ phase = "parse"
  /\ LET c1 == assignIndices(ckt)
         bad == firstUnresolved(c1)
     IN  IF bad # NoError
           THEN /\ phase' = "error"
                /\ perr' = bad
                /\ ckt' = c1
           ELSE /\ phase' = "ac"
                /\ perr' = NoError
                /\ ckt' = resolveModels(c1)
  /\ UNCHANGED <<nread, acStarted, tranStarted, lastLine>>

\* simulate(): simulateAC(circuit) is called with the returned circuit
RunAC ==
  /\ phase = "ac"
  /\ acStarted' = TRUE
  /\ \E ok \in BOOLEAN :
       IF ok THEN phase' = "tran" /\ perr' = perr
             ELSE phase' = "error" /\ perr' = [kind |-> "analysis"]
  /\ UNCHANGED <<ckt, nread, tranStarted, lastLine>>

\* simulate(): simulateTRAN(circuit) runs next; it writes the switches' isOn
RunTRAN ==
  /\ phase = "tran"
  /\ tranStarted' = TRUE
  /\ \E on \in [1..Len(ckt.S) -> BOOLEAN] :
       ckt' = [ckt EXCEPT !.S = [i \in 1..Len(ckt.S) |->
                                   [ckt.S[i] EXCEPT !.isOn = on[i]]]]
  /\ \E ok \in BOOLEAN :
       IF ok THEN phase' = "done" /\ perr' = perr
             ELSE phase' = "error" /\ perr' = [kind |-> "analysis"]
  /\ UNCHANGED <<nread, acStarted, lastLine>>

(***************************************************************************)
(* solveReal and solveComplex.  A number is a pair <<re, im>> of exact     *)
(* rationals; solveReal works on numbers whose im is 0.  EPS stands for    *)
(* the tolerance 1e-15: it lies below every entry that counts as nonzero   *)
(* and above the one entry, 1/4, that is nonzero but negligible.           *)
(***************************************************************************)
EPS == <<1, 2>>

CZero == << <<0, 1>>, <<0, 1>> >>
COne == << <<1, 1>>, <<0, 1>> >>
CAdd(a, b) == <<RAdd(a[1], b[1]), RAdd(a[2], b[2])>>
CSub(a, b) == <<RSub(a[1], b[1]), RSub(a[2], b[2])>>
CMul(a, b) ==
  <<RSub(RMul(a[1], b[1]), RMul(a[2], b[2])),
    RAdd(RMul(a[1], b[2]), RMul(a[2], b[1]))>>
\* b.re * b.re + b.im * b.im
CNorm2(b) == RAdd(RMul(b[1], b[1]), RMul(b[2], b[2]))
CDiv(a, b) ==
  <<RDiv(RAdd(RMul(a[1], b[1]), RMul(a[2], b[2])), CNorm2(b)),
    RDiv(RSub(RMul(a[2], b[1]), RMul(a[1], b[2])), CNorm2(b))>>
\* Math.abs(a) < Math.abs(b), a.abs() < b.abs(): the squares are compared
AbsLt(a, b) == RLt(CNorm2(a), CNorm2(b))
\* Math.abs(a) < r, a.abs() < r, for a real r >= 0
AbsBelow(a, r) == RLt(CNorm2(a), RMul(r, r))

\* Complex.div throws "Complex divide by ~0" when |b|^2 < EPS; the real
\* division never throws
divThrows(kind, b) == kind = "complex" /\ RLt(CNorm2(b), EPS)

\* the row the pivot search ends on: the first row i >= k of largest |A[i][k]|
imaxOf(A, k) ==
  CHOOSE i \in k..Len(A) :
    /\ \A j \in k..Len(A) : ~AbsLt(A[i][k], A[j][k])
    /\ \A j \in k..(i - 1) : AbsLt(A[j][k], A[i][k])

vmaxOf(A, k) == A[imaxOf(A, k)][k]

\* a singularity test that only knows the exact zero
isExactZero(vmax) == vmax = CZero

\* vmax < EPS
isSingular(vmax) == AbsBelow(vmax, EPS)

swapRows(A, k, imax) ==
  [i \in 1..Len(A) |-> IF i = k THEN A[imax] ELSE IF i = imax THEN A[k] ELSE A[i]]

\* the elimination of column k under the pivot row
eliminate(A, k) ==
  [i \in 1..Len(A) |->
     IF i <= k THEN A[i]
     ELSE LET f == CDiv(A[i][k], A[k][k])
          IN  IF AbsBelow(f, EPS) THEN A[i]
              ELSE [j \in 1..(Len(A) + 1) |->
                      IF j < k THEN A[i][j]
                      ELSE CSub(A[i][j], CMul(f, A[k][j]))]]

RECURSIVE rowSum(_, _, _, _)
rowSum(row, x, j, n) ==
  IF j > n THEN CZero ELSE CAdd(CMul(row[j], x[j]), rowSum(row, x, j + 1, n))

\* back-substitution from row i down to row lo
RECURSIVE backSub(_, _, _, _)
backSub(A, i, lo, x) ==
  IF i < lo THEN x
  ELSE backSub(A, i - 1, lo,
         [x EXCEPT ![i] = CDiv(CSub(A[i][Len(A) + 1], rowSum(A[i], x, i + 1, Len(A))),
                               A[i][i])])

\* the rows whose pivot makes Complex.div throw in the back-substitution
badPivots(kind, A) == {i \in 1..Len(A) : divThrows(kind, A[i][i])}

MaxN == 2
MaxPoints == 2

\* the entries a matrix is drawn from, on and off the diagonal
DiagEntries(kind) ==
  IF kind = "real"
    THEN << CZero, COne, << <<1, 4>>, <<0, 1>> >> >>
    ELSE << CZero, COne, << <<0, 1>>, <<1, 2>> >> >>

OffEntries(kind) ==
  IF kind = "real"
    THEN << CZero, << <<-2, 1>>, <<0, 1>> >>, << <<1, 4>>, <<0, 1>> >> >>
    ELSE << CZero, << <<0, 1>>, <<2, 1>> >>, << <<1, 4>>, <<0, 1>> >> >>

\* the systems are symmetric, as the stamps of two-terminal elements and of
\* voltage sources make them: one choice per pair of unknowns
Pairs(n) == {p \in (1..n) \X (1..n) : p[1] <= p[2]}

\* the system the analysis has stamped: A of n rows of n entries, and b
stamped(kind, n, c) ==
  [A |-> [i \in 1..n |->
            [j \in 1..n |->
               IF i = j THEN DiagEntries(kind)[c[<<i, j>>]]
               ELSE IF i < j THEN OffEntries(kind)[c[<<i, j>>]]
               ELSE OffEntries(kind)[c[<<j, i>>]]]],
   b |-> [i \in 1..n |-> COne]]

\* the augmented rows the solver starts from: A[i] = row.slice() with b[i] pushed
augmented(kind, n, c) ==
  [i \in 1..n |->
     [j \in 1..(n + 1) |->
        IF j = n + 1 THEN COne
        ELSE IF i = j THEN DiagEntries(kind)[c[<<i, j>>]]
        ELSE IF i < j THEN OffEntries(kind)[c[<<i, j>>]]
        ELSE OffEntries(kind)[c[<<j, i>>]]]]

\* sKind: "real" inside simulateTRAN, "complex" inside simulateAC
\* sA: the augmented rows; sK: the pivot column; sX: the solution
\* sDivided: the pivots divided by so far in this solve
\* aPoints: the time points or frequencies recorded; aResult: what the
\* analysis has returned
\* sA is the caller's array A itself: the solver stores its augmented rows
\* in it (A[i] = copy) and swaps and eliminates there.  sB is the caller's
\* b, and sCall holds the two arguments as they were when the solver was
\* called.
VARIABLES sKind, sPhase, sA, sK, sX, sErr, sDivided, aPoints, aResult, sB, sCall
sVars == <<sKind, sPhase, sA, sK, sX, sErr, sDivided, aPoints, aResult, sB, sCall>>

SInit ==
  /\ sKind = "real"
  /\ sPhase = "idle"
  /\ sA = <<>>
  /\ sK = 0
  /\ sX = <<>>
  /\ sErr = "none"
  /\ sDivided = {}
  /\ aPoints = 0
  /\ aResult = NULL
  /\ sB = <<>>
  /\ sCall = [A |-> <<>>, b |-> <<>>]

\* the analysis is entered: simulateTRAN solves real systems, simulateAC
\* complex ones
StartAnalysis(kind) ==
  /\ sPhase = "idle" /\ aPoints = 0 /\ sA = <<>>
  /\ sKind' = kind
  /\ sPhase' = "next"
  /\ UNCHANGED <<sA, sK, sX, sErr, sDivided, aPoints, aResult, sB, sCall>>

\* the analysis stamps a system and calls the solver
StartSolve(n, c) ==
  /\ sPhase = "next"
  /\ aPoints < MaxPoints
  /\ sA' = augmented(sKind, n, c)
  /\ sK' = 1
  /\ sX' = <<>>
  /\ sDivided' = {}
  /\ sPhase' = "elim"
  /\ sB' = stamped(sKind, n, c).b
  /\ sCall' = stamped(sKind, n, c)
  /\ UNCHANGED <<sKind, sErr, aPoints, aResult>>

\* one turn of the loop over the pivot columns
PivotStep ==
  /\ sPhase = "elim"
  /\ LET n == Len(sA)
         imax == imaxOf(sA, sK)
         B == swapRows(sA, sK, imax)
     IN  IF isSingular(vmaxOf(sA, sK))
           THEN /\ sPhase' = "threw" /\ sErr' = "singular"
                /\ UNCHANGED <<sA, sK, sDivided>>
           ELSE IF sK < n /\ divThrows(sKind, B[sK][sK])
             THEN /\ sPhase' = "threw" /\ sErr' = "divide"
                  /\ sA' = B
                  /\ UNCHANGED <<sK, sDivided>>
             ELSE /\ sA' = eliminate(B, sK)
                  /\ sDivided' = IF sK < n THEN sDivided \cup {B[sK][sK]} ELSE sDivided
                  /\ sK' = sK + 1
                  /\ sPhase' = IF sK = n THEN "back" ELSE "elim"
                  /\ sErr' = sErr
  /\ UNCHANGED <<sKind, sX, aPoints, aResult, sB, sCall>>

\* the back-substitution loop
BackSubstitute ==
  /\ sPhase = "back"
  /\ LET n == Len(sA)
         bad == badPivots(sKind, sA)
         stop == IF bad = {} THEN 0 ELSE CHOOSE i \in bad : \A j \in bad : j <= i
     IN  /\ sX' = backSub(sA, n, stop + 1, [j \in 1..n |-> CZero])
         /\ sDivided' = sDivided \cup {sA[i][i] : i \in (stop + 1)..n}
         /\ IF bad = {} THEN sPhase' = "solved" /\ sErr' = sErr
                        ELSE sPhase' = "threw" /\ sErr' = "divide"
  /\ UNCHANGED <<sKind, sA, sK, aPoints, aResult, sB, sCall>>

\* the analysis pushes the solved point onto its series
RecordPoint ==
  /\ sPhase = "solved"
  /\ aPoints' = aPoints + 1
  /\ sPhase' = "next"
  /\ UNCHANGED <<sKind, sA, sK, sX, sErr, sDivided, aResult, sB, sCall>>

\* the loop over the points is over and the analysis returns its series
ReturnResult ==
  /\ sPhase = "next"
  /\ aPoints = MaxPoints
  /\ aResult' = [points |-> aPoints]
  /\ sPhase' = "done"
  /\ UNCHANGED <<sKind, sA, sK, sX, sErr, sDivided, aPoints, sB, sCall>>

(***************************************************************************)
(* simulateTRAN: the time points.  Three versions of the engine are       *)
(* modelled: the first one of lib/analysis/simulateTRAN.ts (lines 1-303),  *)
(* which steps evenly through 0..tstop and records at the print step       *)
(* ("v1"), the last one of that file (lines 432-857), which builds its     *)
(* time points with buildTimePoints ("v3"), and the one of                 *)
(* unnamed/part_005, which subdivides its output grid ("p5").  The second  *)
(* version that lib/analysis/simulateTRAN.ts holds (lines 305-430) is not  *)
(* modelled.  A source's waveform carries no breakpoint data after         *)
(* parsing (waveformMeta and waveformInfo are never set), so the           *)
(* breakpoints are 0 and tstop.                                            *)
(***************************************************************************)
TIME_ROUND == RMul(RInt(1000), EPS)

\* the entries lo..hi of a sorted sequence without the repeated values
RECURSIVE distinctSorted(_, _, _)
distinctSorted(s, lo, hi) ==
  IF lo > hi THEN <<>>
  ELSE IF lo = hi
    THEN (IF lo = 1 \/ s[lo] # s[lo - 1] THEN <<s[lo]>> ELSE <<>>)
    ELSE distinctSorted(s, lo, (lo + hi) \div 2)
           \o distinctSorted(s, (lo + hi) \div 2 + 1, hi)

\* Array.from(new Set(values)).sort((a, b) => a - b)
sortTimes(values) ==
  LET sorted == SortSeq(values, LAMBDA a, b : RLt(a, b))
  IN  distinctSorted(sorted, 1, Len(sorted))

\* Number(t.toFixed(12)) for t >= 0
toFixed12(t) ==
  RMul(RInt(RFloor(RAdd(RDiv(t, TIME_ROUND), <<1, 2>>))), TIME_ROUND)

computeBaseTimeStep(dtRequested, tstop) ==
  LET defaultDt == IF RLt(EPS, dtRequested) THEN dtRequested
                   ELSE RMax(RDiv(tstop, RInt(1000)), EPS)
  IN  RMax(defaultDt, EPS)

\* addTime of buildTimePoints: a time just below 0 counts as 0
snapToZero(time) ==
  IF RLt(time, <<0, 1>>) /\ RLt(RSub(<<0, 1>>, TIME_ROUND), time) THEN <<0, 1>>
  ELSE time

\* addTime: whether the time enters the set, and the value that enters
addTimeAccepts(time, tstop) ==
  ~(RLt(snapToZero(time), <<0, 1>>) \/ RLt(RAdd(tstop, TIME_ROUND), snapToZero(time)))

addTimeValue(time, tstop) ==
  toFixed12(RMin(RMax(snapToZero(time), <<0, 1>>), tstop))

buildTimePoints(baseDt, tstop) ==
  LET steps == IMax(1, RCeil(RDiv(tstop, RMax(baseDt, EPS))))
      asked == <<<<0, 1>>, tstop>>
                 \o [k \in 1..(steps + 1) |-> RMin(tstop, RMul(RInt(k - 1), baseDt))]
      kept == SelectSeq(asked, LAMBDA t : addTimeAccepts(t, tstop))
  IN  sortTimes([k \in 1..Len(kept) |-> addTimeValue(kept[k], tstop)])

\* part_005: the step that divides tstop evenly, and the number of steps
computeEffectiveTimeStep(dtRequested, tstop) ==
  LET dtEff == IF RLt(EPS, dtRequested) THEN dtRequested
               ELSE RMax(RDiv(tstop, RInt(1000)), EPS)
      steps == IMax(1, RCeil(RDiv(tstop, RMax(dtEff, EPS))))
  IN  [dt |-> IF steps > 0 THEN RDiv(tstop, RInt(steps)) ELSE tstop,
       steps |-> steps]

\* simulateTRAN.ts, first version: 500 steps across the stop time at least,
\* and the requested step as the print step
MIN_STEPS == 500

computeEffectiveTimeStep1(dtRequested, tstop) ==
  LET defaultStep == IF RLt(<<0, 1>>, tstop) THEN RDiv(tstop, RInt(MIN_STEPS))
                     ELSE <<0, 1>>
      printStep == IF RLt(EPS, dtRequested) THEN dtRequested ELSE defaultStep
      internalBase == RMax(defaultStep, EPS)
      dtTarget == IF RLt(EPS, dtRequested) THEN RMin(printStep, internalBase)
                  ELSE internalBase
      steps == IMax(1, RCeil(RDiv(tstop, RMax(dtTarget, EPS))))
  IN  [dt |-> IF steps > 0 THEN RDiv(tstop, RInt(steps)) ELSE tstop,
       steps |-> steps, printStep |-> printStep]

outputTimesOf(dt, steps, tstop) ==
  [k \in 1..(steps + 1) |->
     IF k - 1 = steps THEN tstop ELSE RMin(RMul(RInt(k - 1), dt), tstop)]

\* keep a time when it is more than 1e-12 after the last one kept
RECURSIVE dedupeTimes(_, _)
dedupeTimes(kept, rest) ==
  IF rest = <<>> THEN kept
  ELSE dedupeTimes(
         IF kept = <<>> \/ RLt(TIME_ROUND, RAbs(RSub(Head(rest), kept[Len(kept)])))
           THEN Append(kept, Head(rest)) ELSE kept,
         Tail(rest))

dedupedTimesOf(outputTimes, tstop) ==
  LET allTimes == outputTimes \o <<<<0, 1>>, tstop>>
      timeGrid == SelectSeq(allTimes,
                            LAMBDA t : RLe(<<0, 1>>, t) /\ RLe(t, RAdd(tstop, EPS)))
  IN  dedupeTimes(<<>>, sortTimes(timeGrid))

SUBDIVISIONS == 200

\* the internal points of the segment that starts at deduped[i]
segmentTimes(deduped, i, dt, tstop) ==
  LET start == deduped[i]
      segment == RSub(deduped[i + 1], start)
      maxInternalDt == IF RLt(EPS, dt) THEN RDiv(dt, RInt(SUBDIVISIONS))
                       ELSE RMax(RDiv(tstop, RInt(1000)), EPS)
      internalDt == RMax(RMin(segment, maxInternalDt), EPS)
      subdivisions == IMax(1, RCeil(RDiv(segment, internalDt)))
  IN  IF RLe(segment, EPS) THEN <<start>>
      ELSE <<start>> \o
           [s \in 1..(subdivisions - 1) |->
              RAdd(start, RDiv(RMul(segment, RInt(s)), RInt(subdivisions)))]

RECURSIVE expandTimes(_, _, _, _)
expandTimes(deduped, i, dt, tstop) ==
  IF i >= Len(deduped) THEN <<deduped[Len(deduped)]>>
  ELSE segmentTimes(deduped, i, dt, tstop) \o expandTimes(deduped, i + 1, dt, tstop)

timeSequenceOf(deduped, dt, tstop) ==
  IF Len(deduped) > 0 THEN expandTimes(deduped, 1, dt, tstop) ELSE deduped

(***************************************************************************)
(* simulateTRAN: the circuits.  A circuit is what parseNetlist makes of a  *)
(* netlist; the .tran line gives the request (dt, tstop).                  *)
(***************************************************************************)
RECURSIVE parseLines(_, _)
parseLines(c, lines) ==
  IF lines = <<>> THEN c ELSE parseLines(parseLine(c, Head(lines)), Tail(lines))

\* the circuit of a netlist whose models all resolve
parseNetlist(lines) == resolveModels(assignIndices(parseLines(CircuitNew, lines)))

tranLine(dt, tstop) == [k |-> "tran", dt |-> dt, tstop |-> tstop]

\* a switch driven by a time-varying source, probes in another case
DrivenSwitch(dt, tstop, levels) ==
  << [k |-> "V", name |-> "V1", n1 |-> "n1", n2 |-> "0", dc |-> 0, waveform |-> PWL(levels)],
     [k |-> "R", name |-> "R1", n1 |-> "Out", n2 |-> "0", val |-> <<1, 1>>],
     [k |-> "S", name |-> "S1", n1 |-> "Out", n2 |-> "0", ncPos |-> "n1",
      ncNeg |-> "0", model |-> "SW"],
     [k |-> "model", name |-> "Sw", type |-> "VSWITCH",
      params |-> << <<"Von", <<5, 1>> >>, <<"Voff", <<2, 1>> >>,
                    <<"Roff", <<1000, 1>> >> >>],
     tranLine(dt, tstop),
     [k |-> "print", probes |-> <<"OUT", "b">>] >>

\* a switch across its own control node, with a model that gives no
\* parameter (Von = Voff = 0); every node is returned
SelfSwitch(dt, tstop, levels) ==
  << [k |-> "S", name |-> "S1", n1 |-> "n1", n2 |-> "0", ncPos |-> "n1",
      ncNeg |-> "0", model |-> "sw"],
     [k |-> "V", name |-> "V1", n1 |-> "out", n2 |-> "0", dc |-> 0, waveform |-> PWL(levels)],
     [k |-> "R", name |-> "R1", n1 |-> "out", n2 |-> "n1", val |-> <<2, 1>>],
     [k |-> "model", name |-> "SW", type |-> "sw", params |-> <<>>],
     tranLine(dt, tstop) >>

\* a constant source, one element of every kind, and a name (R1) used twice
AllElements(dt, tstop) ==
  << [k |-> "V", name |-> "V1", n1 |-> "N1", n2 |-> "0", dc |-> 6, waveform |-> NULL],
     [k |-> "R", name |-> "R1", n1 |-> "n1", n2 |-> "out", val |-> <<2, 1>>],
     [k |-> "R", name |-> "R1", n1 |-> "out", n2 |-> "0", val |-> <<3, 1>>],
     [k |-> "C", name |-> "C1", n1 |-> "n1", n2 |-> "0", val |-> <<1, 4>>],
     [k |-> "L", name |-> "L1", n1 |-> "n1", n2 |-> "out", val |-> <<8, 1>>],
     [k |-> "D", name |-> "D1", n1 |-> "n1", n2 |-> "out", model |-> "D", ntok |-> 4],
     [k |-> "S", name |-> "S1", n1 |-> "out", n2 |-> "0", ncPos |-> "n1",
      ncNeg |-> "0", model |-> "sw"],
     [k |-> "model", name |-> "D", type |-> "D", params |-> <<>>],
     [k |-> "model", name |-> "SW", type |-> "SW",
      params |-> << <<"Vt", <<3, 1>> >>, <<"Vh", <<2, 1>> >> >>],
     tranLine(dt, tstop),
     [k |-> "print", probes |-> <<"n1">>] >>

\* a constant source and a switch, every node returned
ConstantSwitch(dt, tstop) ==
  << [k |-> "V", name |-> "V1", n1 |-> "n1", n2 |-> "0", dc |-> 6, waveform |-> NULL],
     [k |-> "R", name |-> "R1", n1 |-> "n1", n2 |-> "out", val |-> <<2, 1>>],
     [k |-> "S", name |-> "S1", n1 |-> "out", n2 |-> "0", ncPos |-> "n1",
      ncNeg |-> "0", model |-> "Sw"],
     [k |-> "model", name |-> "SW", type |-> "SW",
      params |-> << <<"Von", <<5, 1>> >>, <<"Voff", <<2, 1>> >> >>],
     tranLine(dt, tstop) >>

\* a switch driven by a time-varying source, its .model line without
\* parameters
DefaultSwitch(dt, tstop, levels) ==
  << [k |-> "V", name |-> "V1", n1 |-> "n1", n2 |-> "0", dc |-> 0, waveform |-> PWL(levels)],
     [k |-> "R", name |-> "R1", n1 |-> "n1", n2 |-> "out", val |-> <<2, 1>>],
     [k |-> "S", name |-> "S1", n1 |-> "out", n2 |-> "0", ncPos |-> "n1",
      ncNeg |-> "0", model |-> "sw"],
     [k |-> "model", name |-> "SW", type |-> "SW", params |-> <<>>],
     tranLine(dt, tstop) >>

\* a time-varying source, a resistor, a capacitor and an inductor: no switch
\* and no diode
Linear(dt, tstop, levels) ==
  << [k |-> "V", name |-> "V1", n1 |-> "n1", n2 |-> "0", dc |-> 0, waveform |-> PWL(levels)],
     [k |-> "R", name |-> "R1", n1 |-> "n1", n2 |-> "out", val |-> <<2, 1>>],
     [k |-> "C", name |-> "C1", n1 |-> "out", n2 |-> "0", val |-> <<1, 4>>],
     [k |-> "L", name |-> "L1", n1 |-> "n1", n2 |-> "out", val |-> <<8, 1>>],
     tranLine(dt, tstop) >>

\* a source across a diode, the source moving between volts
DiodeDrive(dt, tstop, levels) ==
  << [k |-> "V", name |-> "V1", n1 |-> "n1", n2 |-> "0", dc |-> 0, waveform |-> PWL(levels)],
     [k |-> "D", name |-> "D1", n1 |-> "n1", n2 |-> "0", model |-> "D", ntok |-> 4],
     [k |-> "model", name |-> "D", type |-> "D", params |-> <<>>],
     tranLine(dt, tstop) >>

(***************************************************************************)
(* simulateTRAN: one Newton iteration.  Assembly and solveReal are not     *)
(* repeated here: the solution of an iteration is given by the time        *)
(* point's response, the voltage the circuit puts on the first switch's    *)
(* control node while that switch is off and while it is on.  The other    *)
(* unknowns are 0.  A response may also be a singular matrix.              *)
(***************************************************************************)
MAX_ITERS == 20
NR_TOL == 1
CTRL_TOL == <<1, 1>>

\* the values the sources can put on a node: a waveform's levels, a
\* constant source's dc value
Levels(c) ==
  UNION { IF c.V[i].waveform # NULL THEN c.V[i].waveform.levels ELSE {c.V[i].dc} :
            i \in 1..Len(c.V) }

\* a switch across its own control node pulls the node down when it is on
Responses(c) ==
  LET self == Len(c.S) > 0 /\ c.S[1].n1 = c.S[1].ncPos
  IN  UNION { { [off |-> a, on |-> b, singular |-> FALSE] :
                  b \in IF self THEN {l \in Levels(c) : l <= a} ELSE {a} } :
                a \in Levels(c) }
        \cup { [off |-> 0, on |-> 0, singular |-> TRUE] }

controlVar(c) == IF Len(c.S) > 0 /\ c.S[1].ncPos # 0 THEN c.S[1].ncPos ELSE 1

\* xNext = solveReal(A, b) for the matrix assembled with the switch states of c
solveAt(c, r) ==
  [i \in 1..Nvar(c) |->
     IF i = controlVar(c)
       THEN IF Len(c.S) > 0 /\ c.S[1].isOn THEN r.on ELSE r.off
       ELSE 0]

\* node === 0 ? 0 : (x[node - 1] ?? 0)
nodeVoltage(xv, node) == IF node # 0 /\ node \in DOMAIN xv THEN xv[node] ELSE 0

vctrlOf(sw, xv) == nodeVoltage(xv, sw.ncPos) - nodeVoltage(xv, sw.ncNeg)

\* a switch update without hysteresis: both thresholds at Von + tol
nextStateOneThreshold(sw, vctrl) ==
  IF sw.isOn
    THEN ~RLe(RInt(vctrl), RAdd(sw.model.Von, CTRL_TOL))
    ELSE RLe(RAdd(sw.model.Von, CTRL_TOL), RInt(vctrl))

\* lib/analysis/simulateTRAN.ts: an off switch turns on at Von + tol
nextStateV3(sw, vctrl) ==
  IF sw.isOn
    THEN ~RLe(RInt(vctrl), RAdd(sw.model.Voff, CTRL_TOL))
    ELSE RLe(RAdd(sw.model.Von, CTRL_TOL), RInt(vctrl))

\* unnamed/part_005: an off switch turns on at Von - ctrlTol
nextStateP5(sw, vctrl) ==
  IF sw.isOn
    THEN ~RLe(RInt(vctrl), RAdd(sw.model.Voff, CTRL_TOL))
    ELSE RLe(RSub(sw.model.Von, CTRL_TOL), RInt(vctrl))

\* lib/analysis/simulateTRAN.ts, first version: no tolerance, and an off
\* switch turns on only above Von
nextStateV1(sw, vctrl) ==
  IF sw.isOn
    THEN ~RLe(RInt(vctrl), sw.model.Voff)
    ELSE RLt(sw.model.Von, RInt(vctrl))

nextState(version, sw, vctrl) ==
  IF sw.model = NULL THEN sw.isOn
  ELSE IF version = "v1" THEN nextStateV1(sw, vctrl)
  ELSE IF version = "v3" THEN nextStateV3(sw, vctrl) ELSE nextStateP5(sw, vctrl)

\* the switches after the update, and whether any of them changed
updateSwitchStatesFromSolution(version, S, xv) ==
  LET next == [i \in 1..Len(S) |-> nextState(version, S[i], vctrlOf(S[i], xv))]
  IN  [S |-> [i \in 1..Len(S) |-> [S[i] EXCEPT !.isOn = next[i]]],
       switched |-> \E i \in 1..Len(S) : next[i] # S[i].isOn]

\* a convergence test against the zero vector instead of the vector the
\* matrix was linearized at
deltaFromZero(xNext, xLin) ==
  \A i \in DOMAIN xNext : Abs(xNext[i]) < NR_TOL

\* maxDelta < 1e-6 over the Nvar unknowns
deltaBelowTol(xNext, xLin) ==
  \A i \in DOMAIN xNext : Abs(xNext[i] - xLin[i]) < NR_TOL

(***************************************************************************)
(* simulateTRAN: the linearization of the diodes.  Voltages are integers   *)
(* in microvolts.  The exponential is not evaluated: the model keeps the   *)
(* voltage a diode is linearized at and the value the exponential is       *)
(* called with, as a voltage (the argument times the thermal voltage).     *)
(* Math.log is computed in fixed point, four decimals kept.                *)
(***************************************************************************)
\* constants/physics: the thermal voltage at 300 K, 0.02585 V
VT_300K == 25850

\* 10000 * ln 2
LN2_E4 == 6931

\* 10000 * (n - d) / (n + d) for d <= n < 2d
zE4(n, d) ==
  IF n + d < 200000 THEN ((n - d) * 10000) \div (n + d)
  ELSE ((n - d) * 100) \div ((n + d) \div 100)

\* 10000 * ln(n / d) for d <= n < 2d: 2 (z + z^3/3 + z^5/5 + z^7/7)
lnSeriesE4(n, d) ==
  CHOOSE r \in {CHOOSE s \in {CHOOSE u \in {2 * (z + (z3 \div 3) + (z5 \div 5)
                                                  + (((z5 * z2) \div 10000) \div 7)) :
                                            z5 \in {(z3 * z2) \div 10000}} : TRUE :
                              z3 \in {(z * z2) \div 10000}} : TRUE :
                z \in {zE4(n, d)}, z2 \in {(zE4(n, d) * zE4(n, d)) \div 10000}} : TRUE

\* 10000 * Math.log(n / d) for n, d > 0
RECURSIVE lnE4(_, _)
lnE4(n, d) ==
  IF n >= 2 * d THEN LN2_E4 + lnE4(n, 2 * d)
  ELSE IF n < d THEN lnE4(2 * n, d) - LN2_E4
  ELSE lnSeriesE4(n, d)

\* vt * Math.log(n / d) in microvolts
vtLog(vt, n, d) == ((vt \div 10) * lnE4(n, d)) \div 1000

\* vt = Math.max(model.N * VT_300K, 1e-6)
thermalVoltage(model) == IMax(model.N * VT_300K, 1)

\* vcrit = vt * Math.log(Math.max(vt / (isat * Math.SQRT2), 1 + EPS)) for
\* the saturation current 1e-14 of every diode model the parser makes:
\* vt / (isat * sqrt 2) = vt[V] * 7.0711e13 = vt[uV] * 70711000
criticalVoltage(vt) ==
  ((vt \div 10) * (lnE4(vt, 1) + lnE4(70711, 1) + lnE4(1000, 1))) \div 1000

\* the damping of a junction voltage between two Newton iterates
pnJunctionVoltageLimit(vNew, vOld, vt, vcrit) ==
  LET dv == vNew - vOld
  IN  IF vNew > vcrit /\ Abs(dv) > 2 * vt
        THEN IF vOld > 0
               THEN (IF vt + dv > 0 THEN vOld + vtLog(vt, vt + dv, vt) ELSE vcrit)
               ELSE (IF vNew > 0 THEN IMin(vtLog(vt, vNew, vt), vcrit) ELSE 0)
      ELSE IF vNew < 0 /\ Abs(dv) > 2 * vt
        THEN (IF vOld - vNew > 0 THEN vOld - vtLog(vt, vt + vOld - vNew, vt) ELSE 0)
      ELSE vNew

\* the last version: the guess, damped against the voltage the diode was
\* linearized at before, and the argument of Math.exp held in [-50, 40]
linearizeV3(d, vdPrevIter, it, vOld) ==
  LET vt == thermalVoltage(d.model)
      vGuess == IF it = 0 THEN vOld ELSE vdPrevIter
      limited == pnJunctionVoltageLimit(vGuess, vOld, vt, criticalVoltage(vt))
  IN  [seed |-> vGuess, limited |-> limited,
       expv |-> IMin(IMax(limited, -50 * vt), 40 * vt)]

\* unnamed/part_005: vd_limited = 0.8 when vd > 0.8
linearizeP5(d, vdPrevIter, it) ==
  LET vd == IF it = 0 THEN d.vdPrev ELSE vdPrevIter
      limited == IF vd > 800000 THEN 800000 ELSE vd
  IN  [seed |-> vd, limited |-> limited, expv |-> limited]

\* the first version: vd_limited held in [-1.0, 0.8]
linearizeV1(d, vdPrevIter, it) ==
  LET vd == IF it = 0 THEN d.vdPrev ELSE vdPrevIter
      limited == IF vd < -1000000 THEN -1000000
                 ELSE IF vd > 800000 THEN 800000 ELSE vd
  IN  [seed |-> vd, limited |-> limited, expv |-> limited]

\* the diode loop of stampAllElementsAtTime: for every diode the voltage it
\* is linearized at; a diode without a model is skipped
linearizeDiodes(version, c, xv, it, linearization) ==
  [i \in 1..Len(c.D) |->
     LET d == c.D[i]
         vdPrevIter == nodeVoltage(xv, d.nPlus) - nodeVoltage(xv, d.nMinus)
     IN  IF d.model = NULL THEN [seed |-> 0, limited |-> 0, expv |-> 0, skipped |-> TRUE]
         ELSE IF version = "v3"
           THEN linearizeV3(d, vdPrevIter, it,
                            IF i \in DOMAIN linearization THEN linearization[i] ELSE 0)
         ELSE IF version = "p5" THEN linearizeP5(d, vdPrevIter, it)
         ELSE linearizeV1(d, vdPrevIter, it)]

(***************************************************************************)
(* simulateTRAN: recording and the state update of a time step.            *)
(***************************************************************************)
\* (elementCurrents[name] ||= []).push(i)
pushCurrent(ec, name, i) ==
  IF name \in DOMAIN ec THEN [ec EXCEPT ![name] = Append(@, i)]
  ELSE (name :> <<i>>) @@ ec

RECURSIVE pushCurrents(_, _)
pushCurrents(ec, pairs) ==
  IF pairs = <<>> THEN ec
  ELSE pushCurrents(pushCurrent(ec, Head(pairs)[1], Head(pairs)[2]), Tail(pairs))

\* Is * (exp(vd / (N * VT_300K)) - 1), held as its argument; "v3" clamps vd
\* to [-1.0, 0.8] volts
diodeCurrent(version, vd) ==
  [exp |-> IF version = "v3"
             THEN (IF vd > 800000 THEN 800000 ELSE IF vd < -1000000 THEN -1000000 ELSE vd)
             ELSE vd]

\* recordSnapshot of the first version: Gc * v + Ieq with Gc = 2C / dtEff and
\* Ieq = -Gc * vPrev - iPrev
capacitorCurrent1(e, v, h) ==
  LET Gc == RDiv(RMul(<<2, 1>>, e.C), h)
  IN  RAdd(RMul(Gc, RInt(v)), RSub(RSub(<<0, 1>>, RMul(Gc, RInt(e.vPrev))), e.iPrev))

\* Gl * v + Ieq with Gl = dtEff / (2L) and Ieq = iPrev + Gl * vPrev
inductorCurrent1(e, v, h) ==
  LET Gl == RDiv(h, RMul(<<2, 1>>, e.L))
  IN  RAdd(RMul(Gl, RInt(v)), RAdd(e.iPrev, RMul(Gl, RInt(e.vPrev))))

\* the currents of a recorded point, in the order R, C, L, V, S, D
currentsAt(version, c, xv, dt) ==
  LET h == RMax(dt, EPS)
  IN  [i \in 1..Len(c.R) |->
         <<c.R[i].name, RDiv(RInt(nodeVoltage(xv, c.R[i].n1) - nodeVoltage(xv, c.R[i].n2)),
                             c.R[i].R)>>]
      \o [i \in 1..Len(c.C) |->
         <<c.C[i].name,
           IF version = "v1"
             THEN capacitorCurrent1(c.C[i], nodeVoltage(xv, c.C[i].n1)
                                            - nodeVoltage(xv, c.C[i].n2), h)
             ELSE RDiv(RMul(c.C[i].C, RInt(nodeVoltage(xv, c.C[i].n1)
                                      - nodeVoltage(xv, c.C[i].n2) - c.C[i].vPrev)), h)>>]
      \o [i \in 1..Len(c.L) |->
         <<c.L[i].name,
           IF version = "v1"
             THEN inductorCurrent1(c.L[i], nodeVoltage(xv, c.L[i].n1)
                                           - nodeVoltage(xv, c.L[i].n2), h)
             ELSE RAdd(RMul(RDiv(h, c.L[i].L),
                            RInt(nodeVoltage(xv, c.L[i].n1) - nodeVoltage(xv, c.L[i].n2))),
                       c.L[i].iPrev)>>]
      \o [i \in 1..Len(c.V) |->
         <<c.V[i].name,
           RInt(IF c.V[i].index + 1 \in DOMAIN xv THEN xv[c.V[i].index + 1] ELSE 0)>>]
      \o [i \in 1..Len(c.S) |->
         <<c.S[i].name,
           RDiv(RInt(nodeVoltage(xv, c.S[i].n1) - nodeVoltage(xv, c.S[i].n2)),
                RMax(RAbs(IF c.S[i].isOn THEN c.S[i].model.Ron ELSE c.S[i].model.Roff),
                     EPS))>>]
      \o [i \in 1..Len(c.D) |->
         <<c.D[i].name,
           diodeCurrent(version, nodeVoltage(xv, c.D[i].nPlus)
                                 - nodeVoltage(xv, c.D[i].nMinus))>>]

\* series.push(x[id - 1] ?? 0) for every node but ground
pushVoltages(nv, c, xv) ==
  [name \in DOMAIN nv |->
     Append(nv[name], nodeVoltage(xv, get(c.nodes, name)))]

\* the first version keeps the voltage and the current of a capacitor and of
\* an inductor: iNew = Gc * (vNew - vPrev) - iPrevOld for a capacitor,
\* iNew = iPrevOld + Gl * (vNew + vPrev) for an inductor
updateElementState1(c, xv, dt) ==
  LET h == RMax(dt, EPS)
      vOf(e) == nodeVoltage(xv, e.n1) - nodeVoltage(xv, e.n2)
  IN  [c EXCEPT
        !.C = [i \in 1..Len(c.C) |->
                 [c.C[i] EXCEPT
                    !.vPrev = vOf(c.C[i]),
                    !.iPrev = RSub(RMul(RDiv(RMul(<<2, 1>>, c.C[i].C), h),
                                        RInt(vOf(c.C[i]) - c.C[i].vPrev)), @)]],
        !.L = [i \in 1..Len(c.L) |->
                 [c.L[i] EXCEPT
                    !.vPrev = vOf(c.L[i]),
                    !.iPrev = RAdd(@, RMul(RDiv(h, RMul(<<2, 1>>, c.L[i].L)),
                                           RInt(vOf(c.L[i]) + c.L[i].vPrev)))]],
        !.D = [i \in 1..Len(c.D) |->
                 [c.D[i] EXCEPT !.vdPrev = nodeVoltage(xv, c.D[i].nPlus)
                                           - nodeVoltage(xv, c.D[i].nMinus)]]]

\* every version updating the state by the trapezoidal rule of the first
updateElementStateTrapezoidal(version, c, xv, dt) == updateElementState1(c, xv, dt)

\* a state update that also opens every switch
updateElementStateOpening(version, c, xv, dt) ==
  [updateElementState1(c, xv, dt) EXCEPT
     !.S = [i \in 1..Len(c.S) |-> [c.S[i] EXCEPT !.isOn = FALSE]]]

\* vPrev, iPrev and vdPrev after the step
updateElementState(version, c, xv, dt) ==
  LET h == RMax(dt, EPS)
  IN  IF version = "v1" THEN updateElementState1(c, xv, dt)
      ELSE
      [c EXCEPT
        !.C = [i \in 1..Len(c.C) |->
                 [c.C[i] EXCEPT !.vPrev = nodeVoltage(xv, c.C[i].n1)
                                          - nodeVoltage(xv, c.C[i].n2)]],
        !.L = [i \in 1..Len(c.L) |->
                 [c.L[i] EXCEPT !.iPrev =
                    RAdd(RMul(RDiv(h, c.L[i].L),
                              RInt(nodeVoltage(xv, c.L[i].n1)
                                   - nodeVoltage(xv, c.L[i].n2))), @)]],
        !.D = [i \in 1..Len(c.D) |->
                 [c.D[i] EXCEPT !.vdPrev = nodeVoltage(xv, c.D[i].nPlus)
                                           - nodeVoltage(xv, c.D[i].nMinus)]]]

\* a probe filter that compares the names as they are written
probedVoltagesExact(nv, probes) ==
  [name \in {n \in DOMAIN nv : \E i \in 1..Len(probes) : probes[i] = n} |-> nv[name]]

\* the nodes whose upper-cased name is an upper-cased probe
probedVoltages(nv, probes) ==
  [name \in {n \in DOMAIN nv :
               \E i \in 1..Len(probes) : toUpperCase(probes[i]) = toUpperCase(n)}
     |-> nv[name]]

\* what simulateTRAN returns
resultOf(c, times, nv, ec) ==
  [times |-> times,
   nodeVoltages |-> IF Len(c.probes.tran) > 0 THEN probedVoltages(nv, c.probes.tran)
                    ELSE nv,
   elementCurrents |-> ec]

(***************************************************************************)
(* simulateTRAN: the engine.  tphase is the position in simulateTRAN:      *)
(* "idle" before the call, "loop" at the head of the loop over the time    *)
(* points, "newton" inside the Newton loop, "accept" after it, "returned"  *)
(* and "threw" after the call.  obs keeps what the last Newton iteration   *)
(* saw: the switch states before and after the update, the control         *)
(* voltages, the update's result and whether the iteration met the         *)
(* convergence condition.                                                  *)
(***************************************************************************)
VARIABLES impl, tckt, tphase, grid, idx, outputIndex, stepDt, iter, x,
          xPrevStep, resp, obs, times, nodeVoltages, elementCurrents,
          result, terr, nextOutputTime, diodeLinearization

tVars == <<impl, tckt, tphase, grid, idx, outputIndex, stepDt, iter, x,
           xPrevStep, resp, obs, times, nodeVoltages, elementCurrents,
           result, terr, nextOutputTime, diodeLinearization>>

\* small: the solution moved by less than 1e-6 from the vector the matrix
\* was linearized at; met: no switch toggled and small; lin: what the diodes
\* were linearized at
NoObs == [before |-> <<>>, vctrl |-> <<>>, after |-> <<>>,
          switched |-> FALSE, met |-> FALSE, small |-> FALSE, lin |-> <<>>]

NoTran ==
  << [k |-> "V", name |-> "V1", n1 |-> "n1", n2 |-> "0", dc |-> 6, waveform |-> NULL],
     [k |-> "R", name |-> "R1", n1 |-> "n1", n2 |-> "0", val |-> <<2, 1>>] >>

\* the calls of simulateTRAN: the version that runs and the netlist
TranRuns ==
  { [impl |-> "v3", lines |-> DrivenSwitch(<<200000, 1>>, <<500000, 1>>, {0, 3, 4, 6})],
    [impl |-> "v3", lines |-> SelfSwitch(<<100000, 1>>, <<200000, 1>>, {0, 1, 6})],
    [impl |-> "v3", lines |-> ConstantSwitch(<<0, 1>>, <<1000000, 1>>)],
    [impl |-> "v3", lines |-> AllElements(<<100000, 1>>, <<200000, 1>>)],
    [impl |-> "v3", lines |-> NoTran],
    [impl |-> "p5", lines |-> DrivenSwitch(<<200000, 1>>, <<200000, 1>>, {0, 4})],
    [impl |-> "p5", lines |-> SelfSwitch(<<200000, 1>>, <<200000, 1>>, {0, 6})],
    [impl |-> "p5", lines |-> AllElements(<<200000, 1>>, <<400000, 1>>)],
    [impl |-> "p5", lines |-> ConstantSwitch(<<200000, 1>>, <<400000, 1>>)],
    [impl |-> "v3", lines |-> ConstantSwitch(<<100000, 1>>, <<0, 1>>)],
    [impl |-> "v3", lines |-> ConstantSwitch(<<100000, 1>>, <<-200000, 1>>)],
    [impl |-> "p5", lines |-> ConstantSwitch(<<200000, 1>>, <<0, 1>>)],
    [impl |-> "p5", lines |-> ConstantSwitch(<<200000, 1>>, <<-200000, 1>>)],
    [impl |-> "v1", lines |-> SelfSwitch(<<200000, 1>>, <<200000, 1>>, {0, 6})],
    [impl |-> "v1", lines |-> AllElements(<<200000, 1>>, <<200000, 1>>)],
    [impl |-> "v3", lines |-> DiodeDrive(<<100000, 1>>, <<200000, 1>>,
                                         {-5000000, 700000, 900000})],
    [impl |-> "p5", lines |-> DiodeDrive(<<200000, 1>>, <<200000, 1>>, {-5000000, 900000})],
    [impl |-> "v1", lines |-> DiodeDrive(<<200000, 1>>, <<200000, 1>>, {-5000000, 900000})],
    [impl |-> "v3", lines |-> Linear(<<200000, 1>>, <<200000, 1>>, {0, 6})],
    [impl |-> "p5", lines |-> Linear(<<200000, 1>>, <<200000, 1>>, {6})],
    [impl |-> "v1", lines |-> Linear(<<200000, 1>>, <<200000, 1>>, {6})],
    [impl |-> "v3", lines |-> DefaultSwitch(<<200000, 1>>, <<200000, 1>>, {0, 1, 6})],
    [impl |-> "p5", lines |-> DefaultSwitch(<<200000, 1>>, <<200000, 1>>, {0, 6})] }

TInit ==
  /\ impl = "v3"
  /\ tckt = CircuitNew
  /\ tphase = "idle"
  /\ grid = [timeSeq |-> <<>>, outputTimes |-> <<>>, dt |-> <<0, 1>>]
  /\ idx = 1
  /\ outputIndex = 1
  /\ stepDt = <<0, 1>>
  /\ iter = 0
  /\ x = <<>>
  /\ xPrevStep = <<>>
  /\ resp = [off |-> 0, on |-> 0, singular |-> FALSE]
  /\ obs = NoObs
  /\ times = <<>>
  /\ nodeVoltages = <<>>
  /\ elementCurrents = <<>>
  /\ result = NULL
  /\ terr = NoError
  /\ nextOutputTime = <<0, 1>>
  /\ diodeLinearization = <<>>

gridOf(version, dtRequested, tstop) ==
  IF version = "v1"
    THEN LET e == computeEffectiveTimeStep1(dtRequested, tstop)
         IN  [timeSeq |-> [k \in 1..(e.steps + 1) |-> RMul(RInt(k - 1), e.dt)],
              outputTimes |-> <<>>, dt |-> e.dt, printStep |-> e.printStep,
              outputEveryStep |-> RLe(dtRequested, EPS) \/ RLe(e.printStep, EPS),
              tstop |-> tstop]
  ELSE IF version = "v3"
    THEN LET baseDt == computeBaseTimeStep(dtRequested, tstop)
         IN  [timeSeq |-> buildTimePoints(baseDt, tstop), outputTimes |-> <<>>,
              dt |-> RMax(baseDt, EPS)]
    ELSE LET e == computeEffectiveTimeStep(dtRequested, tstop)
             out == outputTimesOf(e.dt, e.steps, tstop)
         IN  [timeSeq |-> timeSequenceOf(dedupedTimesOf(out, tstop), e.dt, tstop),
              outputTimes |-> out, dt |-> e.dt]

\* the step length of time point i (1-based)
stepDtOf(version, g, i) ==
  LET ts == g.timeSeq
      t == ts[i]
  IN  IF version = "v1" THEN g.dt
      ELSE IF version = "v3"
        THEN LET raw == IF i = 1
                          THEN (IF i + 1 <= Len(ts) THEN RSub(ts[i + 1], t) ELSE g.dt)
                          ELSE RSub(t, ts[i - 1])
             IN  RMax(IF RLe(raw, <<0, 1>>) THEN g.dt ELSE raw, EPS)
        ELSE IF i = 1
          THEN RMax(RSub(IF i + 1 <= Len(ts) THEN ts[i + 1] ELSE t, t), EPS)
          ELSE RMax(RSub(t, ts[i - 1]), EPS)

\* the call: simulateTRAN(parseNetlist(netlist)) up to the loop over the
\* time points, or its return of null when there is no .tran line
SimulateTRAN(run) ==
  /\ tphase = "idle"
  /\ LET c == parseNetlist(run.lines)
     IN  /\ impl' = run.impl
         /\ tckt' = c
         /\ IF c.analyses.tran = NULL
              THEN /\ tphase' = "returned"
                   /\ UNCHANGED <<grid, xPrevStep, nodeVoltages>>
              ELSE /\ tphase' = "loop"
                   /\ grid' = gridOf(run.impl, c.analyses.tran.dt, c.analyses.tran.tstop)
                   /\ xPrevStep' = [i \in 1..Nvar(c) |-> 0]
                   /\ nodeVoltages' =
                        [name \in {c.nodes.rev[i] : i \in 2..count(c.nodes)} |-> <<>>]
  /\ UNCHANGED <<idx, outputIndex, stepDt, iter, x, resp, obs, times,
                 elementCurrents, result, terr, nextOutputTime,
                 diodeLinearization>>

\* the head of the loop body for time point idx, with the response of the
\* circuit at that time
BeginStep(r) ==
  /\ tphase = "loop"
  /\ idx <= Len(grid.timeSeq)
  /\ resp' = r
  /\ stepDt' = stepDtOf(impl, grid, idx)
  /\ times' = IF impl = "v3" THEN Append(times, grid.timeSeq[idx]) ELSE times
  /\ x' = IF impl = "v1" THEN [i \in 1..Nvar(tckt) |-> 0] ELSE xPrevStep
  /\ diodeLinearization' =
       IF impl = "v3" THEN [i \in 1..Len(tckt.D) |-> tckt.D[i].vdPrev]
       ELSE diodeLinearization
  /\ iter' = 0
  /\ tphase' = "newton"
  /\ UNCHANGED <<impl, tckt, grid, idx, outputIndex, xPrevStep, obs,
                 nodeVoltages, elementCurrents, result, terr, nextOutputTime>>

\* one pass of the Newton loop: assemble, solve, update the switches, test
NewtonIteration ==
  /\ tphase = "newton"
  /\ diodeLinearization' =
       IF impl = "v3"
         THEN [i \in 1..Len(tckt.D) |->
                 linearizeDiodes(impl, tckt, x, iter, diodeLinearization)[i].limited]
         ELSE diodeLinearization
  /\ IF resp.singular
       THEN /\ tphase' = "threw"
            /\ terr' = [kind |-> "singular"]
            /\ UNCHANGED <<tckt, x, iter, obs>>
       ELSE LET xNext == solveAt(tckt, resp)
                upd == updateSwitchStatesFromSolution(impl, tckt.S, xNext)
                small == deltaBelowTol(xNext, x)
                met == ~upd.switched /\ small
                \* the first version leaves the loop when no switch toggled
                exit == IF impl = "v1" THEN ~upd.switched ELSE met
            IN  /\ tckt' = [tckt EXCEPT !.S = upd.S]
                /\ x' = xNext
                /\ obs' = [before |-> [i \in 1..Len(tckt.S) |-> tckt.S[i].isOn],
                           vctrl |-> [i \in 1..Len(tckt.S) |-> vctrlOf(tckt.S[i], xNext)],
                           after |-> [i \in 1..Len(tckt.S) |-> upd.S[i].isOn],
                           switched |-> upd.switched,
                           met |-> met,
                           small |-> small,
                           lin |-> linearizeDiodes(impl, tckt, x, iter,
                                                   diodeLinearization)]
                /\ IF exit
                     THEN tphase' = "accept" /\ UNCHANGED <<iter, terr>>
                     ELSE IF iter + 1 < MAX_ITERS
                       THEN iter' = iter + 1 /\ UNCHANGED <<tphase, terr>>
                       ELSE IF impl = "v3"
                         THEN /\ iter' = iter + 1
                              /\ tphase' = "threw"
                              /\ terr' = [kind |-> "newton", t |-> grid.timeSeq[idx]]
                         ELSE tphase' = "accept" /\ UNCHANGED <<iter, terr>>
  /\ UNCHANGED <<impl, grid, idx, outputIndex, stepDt, xPrevStep, resp, times,
                 nodeVoltages, elementCurrents, result, nextOutputTime>>

\* part_005: Math.abs(tCurrent - targetOutput) <= timeTolerance
shouldRecord(g, i, oi, dtStep) ==
  /\ oi <= Len(g.outputTimes)
  /\ RLe(RAbs(RSub(g.timeSeq[i], g.outputTimes[oi])),
         RAdd(RMul(RMax(RMax(dtStep, g.dt), TIME_ROUND), <<1, 1000000>>), TIME_ROUND))

\* first version: the print times not after t, from nextOutputTime on
RECURSIVE printTimes(_, _, _)
printTimes(g, t, next) ==
  IF RLe(next, RAdd(t, EPS)) /\ RLe(next, RAdd(g.tstop, EPS)) /\ RLt(EPS, g.printStep)
    THEN <<next>> \o printTimes(g, t, RAdd(next, g.printStep))
    ELSE <<>>

\* first version: the times recordSnapshot is called with at time point i
snapshotTimes(g, i, recorded, next) ==
  LET t == g.timeSeq[i]
      printed == printTimes(g, t, next)
      all == recorded \o printed
  IN  IF g.outputEveryStep THEN <<t>>
      ELSE IF i = Len(g.timeSeq)
                /\ (all = <<>> \/ RLt(EPS, RAbs(RSub(all[Len(all)], t))))
        THEN Append(printed, t)
        ELSE printed

\* recordSnapshot called once per time of snaps, with the same solution
RECURSIVE recordSnapshots(_, _, _, _, _)
recordSnapshots(version, rec, c, xv, snaps) ==
  IF snaps = <<>> THEN rec
  ELSE recordSnapshots(
         version,
         [times |-> Append(rec.times, Head(snaps)),
          nodeVoltages |-> pushVoltages(rec.nodeVoltages, c, xv),
          elementCurrents |-> pushCurrents(rec.elementCurrents,
                                           currentsAt(version, c, xv, rec.dt)),
          dt |-> rec.dt],
         c, xv, Tail(snaps))

\* the rest of the loop body of the first version: record at the print
\* times, update the state
AcceptStep1 ==
  LET snaps == snapshotTimes(grid, idx, times, nextOutputTime)
      rec == recordSnapshots(impl, [times |-> times, nodeVoltages |-> nodeVoltages,
                                    elementCurrents |-> elementCurrents,
                                    dt |-> stepDt], tckt, x, snaps)
  IN  /\ times' = rec.times
      /\ nodeVoltages' = rec.nodeVoltages
      /\ elementCurrents' = rec.elementCurrents
      /\ nextOutputTime' =
           IF grid.outputEveryStep THEN nextOutputTime
           ELSE RAdd(nextOutputTime,
                     RMul(RInt(Len(printTimes(grid, grid.timeSeq[idx], nextOutputTime))),
                          grid.printStep))
      /\ UNCHANGED <<xPrevStep, outputIndex>>

\* the rest of the loop body: keep the solution, record, update the state
AcceptStep ==
  /\ tphase = "accept"
  /\ IF impl = "v1" THEN AcceptStep1
     ELSE
     /\ xPrevStep' = x
     /\ LET rec == impl = "v3" \/ shouldRecord(grid, idx, outputIndex, stepDt)
        IN  /\ times' = IF impl = "p5" /\ rec THEN Append(times, grid.timeSeq[idx])
                        ELSE times
            /\ nodeVoltages' = IF rec THEN pushVoltages(nodeVoltages, tckt, x)
                               ELSE nodeVoltages
            /\ elementCurrents' =
                 IF rec THEN pushCurrents(elementCurrents, currentsAt(impl, tckt, x, stepDt))
                 ELSE elementCurrents
            /\ outputIndex' = IF impl = "p5" /\ rec THEN outputIndex + 1 ELSE outputIndex
     /\ UNCHANGED nextOutputTime
  /\ tckt' = updateElementState(impl, tckt, x, stepDt)
  /\ idx' = idx + 1
  /\ tphase' = "loop"
  /\ UNCHANGED <<impl, grid, stepDt, iter, x, resp, obs, result, terr,
                 diodeLinearization>>

\* after the last time point: the probe filter and the return
ReturnTRAN ==
  /\ tphase = "loop"
  /\ idx > Len(grid.timeSeq)
  /\ result' = resultOf(tckt, times, nodeVoltages, elementCurrents)
  /\ tphase' = "returned"
  /\ UNCHANGED <<impl, tckt, grid, idx, outputIndex, stepDt, iter, x, xPrevStep,
                 resp, obs, times, nodeVoltages, elementCurrents, terr,
                 nextOutputTime, diodeLinearization>>

(***************************************************************************)
(* The stamping primitives.  A system under assembly is a record           *)
(* [A, b, err]: A maps a row position to a row, a row and b map a position *)
(* to an entry; positions are the source's indices plus one.  The entries  *)
(* are pairs <<re, im>> for the real and for the complex primitives alike  *)
(* (im = 0 in the real ones), so one definition stands for both.  A write  *)
(* at a position the row does not have adds the position, as an            *)
(* assignment to a JavaScript array does.                                  *)
(***************************************************************************)
CReal(r) == <<r, <<0, 1>>>>
CNeg(a) == CSub(CZero, a)

\* Array.from({length: Nvar}, () => new Array(Nvar).fill(0)), and b
zeroSystem(n) ==
  [A |-> [i \in 1..n |-> [j \in 1..n |-> CZero]],
   b |-> [i \in 1..n |-> CZero],
   err |-> "none"]

\* a write that stores the value instead of adding it
addAtAssign(row, p, v) == (p :> v) @@ row

\* row[j] = (row[j] ?? 0) + v
addAt(row, p, v) ==
  IF p \in DOMAIN row THEN [row EXCEPT ![p] = CAdd(@, v)] ELSE (p :> v) @@ row

\* A[i][j] += v where the row exists
addEntry(M, pi, pj, v) == [M EXCEPT !.A[pi] = addAt(@, pj, v)]

rowMissing(M, pi) == pi \notin DOMAIN M.A

\* the position of a node in the system: matrixIndexOfNode(n) + 1
posOf(n) == matrixIndexOfNode(n) + 1

\* stampAdmittanceReal, stampAdmittanceComplex
stampAdmittance(M, n1, n2, Y) ==
  LET p1 == posOf(n1)
      p2 == posOf(n2)
      M1 == IF p1 >= 1 THEN addEntry(M, p1, p1, Y) ELSE M
      M2 == IF p2 >= 1 THEN addEntry(M1, p2, p2, Y) ELSE M1
  IN  IF M.err # "none" THEN M
      ELSE IF p1 >= 1 /\ rowMissing(M, p1) THEN [M EXCEPT !.err = "row missing"]
      ELSE IF p2 >= 1 /\ rowMissing(M, p2) THEN [M1 EXCEPT !.err = "row missing"]
      ELSE IF p1 >= 1 /\ p2 >= 1
        THEN addEntry(addEntry(M2, p1, p2, CNeg(Y)), p2, p1, CNeg(Y))
        ELSE M2

\* a current stamp with the signs the other way round
stampCurrentReversed(M, nPlus, nMinus, current) ==
  LET pPlus == posOf(nPlus)
      pMinus == posOf(nMinus)
      M1 == IF pPlus >= 1 THEN [M EXCEPT !.b = addAt(@, pPlus, current)] ELSE M
  IN  IF pMinus >= 1 THEN [M1 EXCEPT !.b = addAt(@, pMinus, CNeg(current))] ELSE M1

\* stampCurrentReal, stampCurrentComplex
stampCurrent(M, nPlus, nMinus, current) ==
  LET pPlus == posOf(nPlus)
      pMinus == posOf(nMinus)
      M1 == IF pPlus >= 1 THEN [M EXCEPT !.b = addAt(@, pPlus, CNeg(current))] ELSE M
  IN  IF M.err # "none" THEN M
      ELSE IF pMinus >= 1 THEN [M1 EXCEPT !.b = addAt(@, pMinus, current)] ELSE M1

\* a source stamp that writes the branch column of the node rows and b, and
\* leaves the branch row alone
stampVoltageSourceColumnOnly(M, source, voltage) ==
  LET p1 == posOf(source.n1)
      p2 == posOf(source.n2)
      pj == source.index + 1
      M1 == IF p1 >= 1 THEN addEntry(M, p1, pj, COne) ELSE M
      M2 == IF p2 >= 1 THEN addEntry(M1, p2, pj, CNeg(COne)) ELSE M1
  IN  IF M.err # "none" THEN M
      ELSE [M2 EXCEPT !.b = addAt(@, pj, voltage)]

\* stampVoltageSourceReal, stampVoltageSourceComplex
stampVoltageSource(M, source, voltage) ==
  LET p1 == posOf(source.n1)
      p2 == posOf(source.n2)
      pj == source.index + 1
      M1 == IF p1 >= 1 THEN addEntry(M, p1, pj, COne) ELSE M
      M2 == IF p2 >= 1 THEN addEntry(M1, p2, pj, CNeg(COne)) ELSE M1
      M3 == IF p1 >= 1 THEN addEntry(M2, pj, p1, COne) ELSE M2
      M4 == IF p2 >= 1 THEN addEntry(M3, pj, p2, CNeg(COne)) ELSE M3
  IN  IF M.err # "none" THEN M
      ELSE IF p1 >= 1 /\ rowMissing(M, p1) THEN [M EXCEPT !.err = "row missing"]
      ELSE IF p2 >= 1 /\ rowMissing(M, p2) THEN [M1 EXCEPT !.err = "row missing"]
      ELSE IF rowMissing(M, pj) THEN [M2 EXCEPT !.err = "row missing"]
      ELSE [M4 EXCEPT !.b = addAt(@, pj, voltage)]

\* every row and b have exactly the positions 1..n
wellShaped(M, n) ==
  /\ DOMAIN M.A = 1..n
  /\ \A i \in 1..n : DOMAIN M.A[i] = 1..n
  /\ DOMAIN M.b = 1..n

(***************************************************************************)
(* The solvers as functions: solveReal(A, b) and solveComplex(A, b) on a   *)
(* well-shaped system.  The result is the solution or the error thrown.    *)
(***************************************************************************)
\* A[i] = row.slice() with b[i] pushed: the entries the solver reads are
\* the first n + 1 of the copy, and b[i] is the last of them only when the
\* row has exactly n entries
augmentRows(M) ==
  LET n == Cardinality(DOMAIN M.A)
  IN  [i \in 1..n |-> [j \in 1..(n + 1) |->
         IF j \in DOMAIN M.A[i] THEN M.A[i][j]
         ELSE IF j = n + 1 THEN M.b[i] ELSE CZero]]

RECURSIVE eliminateFrom(_, _, _)
eliminateFrom(kind, A, k) ==
  IF k > Len(A) THEN [err |-> "none", A |-> A]
  ELSE IF isSingular(vmaxOf(A, k)) THEN [err |-> "singular", A |-> A]
  ELSE LET B == swapRows(A, k, imaxOf(A, k))
       IN  IF k < Len(A) /\ divThrows(kind, B[k][k]) THEN [err |-> "divide", A |-> B]
           ELSE eliminateFrom(kind, eliminate(B, k), k + 1)

solveSystem(kind, M) ==
  LET e == eliminateFrom(kind, augmentRows(M), 1)
      n == Cardinality(DOMAIN M.A)
  IN  IF e.err # "none" THEN [err |-> e.err, x |-> <<>>, A |-> e.A]
      ELSE IF badPivots(kind, e.A) # {} THEN [err |-> "divide", x |-> <<>>, A |-> e.A]
      ELSE [err |-> "none", x |-> backSub(e.A, n, 1, [j \in 1..n |-> CZero]), A |-> e.A]

(***************************************************************************)
(* The AC engine, simulateAC.  Frequencies are exact rationals in hertz;   *)
(* twoPi is held as the rational 6, and Complex.fromPolar is tabulated at  *)
(* the multiples of 90 degrees, where it is rational.  The magnitudes are  *)
(* compared with EPS = 1/2 as in the solver.                               *)
(***************************************************************************)
twoPi == <<6, 1>>

RECURSIVE pow10(_)
pow10(k) == IF k <= 0 THEN <<1, 1>> ELSE RMul(<<10, 1>>, pow10(k - 1))

\* Math.ceil(Math.log10(ratio)) for ratio >= 1: the least k with 10^k >= ratio
RECURSIVE ceilLog10(_, _)
ceilLog10(ratio, k) ==
  IF RLe(ratio, pow10(k)) THEN k ELSE ceilLog10(ratio, k + 1)

\* logspace(f1, f2, pointsPerDecade) at one point per decade, where the
\* powers 10^(i / pointsPerDecade) are rational; the last point is compared
\* with f2 itself, the factor 1 - EPS being 1 to fifteen places
logspace(f1, f2, pointsPerDecade) ==
  IF RLe(f1, <<0, 1>>) \/ RLe(f2, <<0, 1>>)
    THEN [err |-> ".ac frequencies must be > 0", freqs |-> <<>>]
    ELSE LET lo == RMin(f1, f2)
             hi == RMax(f1, f2)
             n == IMax(1, ceilLog10(RDiv(hi, lo), 0) * pointsPerDecade)
             arr == [i \in 1..(n + 1) |-> RMul(lo, pow10((i - 1) \div pointsPerDecade))]
         IN  [err |-> "none",
              freqs |-> IF RLt(arr[n + 1], hi) THEN Append(arr, hi) ELSE arr]

\* the linear sweep: npts = Math.max(2, N) points from f1 in steps of
\* (f2 - f1) / (npts - 1)
linspace(f1, f2, N) ==
  LET npts == IMax(2, N)
      step == RDiv(RSub(f2, f1), RInt(npts - 1))
  IN  [err |-> "none",
       freqs |-> [i \in 1..npts |-> RAdd(f1, RMul(RInt(i - 1), step))]]

freqsOf(ac) ==
  IF ac.mode = "dec" THEN logspace(ac.f1, ac.f2, ac.N) ELSE linspace(ac.f1, ac.f2, ac.N)

\* Complex.fromPolar(mag, deg) at deg in {0, 90, 180, 270}
fromPolar(mag, deg) ==
  CASE deg = 0 -> <<mag, <<0, 1>>>>
    [] deg = 90 -> << <<0, 1>>, mag>>
    [] deg = 180 -> <<RSub(<<0, 1>>, mag), <<0, 1>>>>
    [] deg = 270 -> << <<0, 1>>, RSub(<<0, 1>>, mag)>>

\* Complex.from(0, twoPi * f * value)
jOmega(f, value) == << <<0, 1>>, RMul(RMul(twoPi, f), value)>>

\* the admittance of an element at the frequency f
admittanceAC(kind, e, f) ==
  CASE kind = "R" -> CReal(RDiv(<<1, 1>>, e.R))
    [] kind = "C" -> jOmega(f, e.C)
    [] kind = "L" -> IF AbsBelow(jOmega(f, e.L), EPS) THEN CZero
                     ELSE CDiv(COne, jOmega(f, e.L))

\* one element's stamp in a frequency point's assembly
stampElementAC(M, kind, e, f) ==
  IF M.err # "none" THEN M
  ELSE IF kind = "R" /\ RLe(e.R, <<0, 1>>) THEN [M EXCEPT !.err = "R must be > 0"]
  ELSE IF kind = "L" /\ ~AbsBelow(jOmega(f, e.L), EPS)
                     /\ divThrows("complex", jOmega(f, e.L))
    THEN [M EXCEPT !.err = "divide"]
  ELSE IF kind = "V" THEN stampVoltageSource(M, e, fromPolar(e.acMag, e.acPhaseDeg))
  ELSE stampAdmittance(M, e.n1, e.n2, admittanceAC(kind, e, f))

RECURSIVE stampAllAC(_, _, _, _)
stampAllAC(M, kind, elems, f) ==
  IF elems = <<>> THEN M
  ELSE CHOOSE r \in {stampAllAC(m, kind, Tail(elems), f) :
                       m \in {stampElementAC(M, kind, Head(elems), f)}} : TRUE

\* A and b of a frequency point: R, C, L, then V
assembleAC(c, f) ==
  CHOOSE r \in {stampAllAC(m3, "V", c.V, f) :
                  m3 \in {stampAllAC(m2, "L", c.L, f) :
                    m2 \in {stampAllAC(m1, "C", c.C, f) :
                      m1 \in {stampAllAC(zeroSystem(Nvar(c)), "R", c.R, f)}}}} : TRUE

\* x[node - 1] ?? 0, node === 0 ? 0
nodePhasor(xv, node) == IF node # 0 /\ node \in DOMAIN xv THEN xv[node] ELSE CZero

\* the currents of a frequency point, in the order R, C, L, V
currentsAC(c, xv, f) ==
  [i \in 1..Len(c.R) |->
     <<c.R[i].name, CMul(admittanceAC("R", c.R[i], f),
                         CSub(nodePhasor(xv, c.R[i].n1), nodePhasor(xv, c.R[i].n2)))>>]
  \o [i \in 1..Len(c.C) |->
     <<c.C[i].name, CMul(admittanceAC("C", c.C[i], f),
                         CSub(nodePhasor(xv, c.C[i].n1), nodePhasor(xv, c.C[i].n2)))>>]
  \o [i \in 1..Len(c.L) |->
     <<c.L[i].name, CMul(admittanceAC("L", c.L[i], f),
                         CSub(nodePhasor(xv, c.L[i].n1), nodePhasor(xv, c.L[i].n2)))>>]
  \o [i \in 1..Len(c.V) |->
     <<c.V[i].name,
       IF c.V[i].index + 1 \in DOMAIN xv THEN xv[c.V[i].index + 1] ELSE CZero>>]

\* series.push(x[id - 1] ?? 0) for every node but ground
pushPhasors(nv, c, xv) ==
  [name \in DOMAIN nv |-> Append(nv[name], nodePhasor(xv, get(c.nodes, name)))]

acLine(mode, N, f1, f2) == [k |-> "ac", mode |-> mode, N |-> N, f1 |-> f1, f2 |-> f2]

acSource(mag, deg) ==
  [k |-> "V", name |-> "V1", n1 |-> "n1", n2 |-> "0", dc |-> 6, waveform |-> NULL,
   acMag |-> mag, acPhaseDeg |-> deg]

\* a low-pass filter
LowPass ==
  << acSource(<<1, 1>>, 0),
     [k |-> "R", name |-> "R1", n1 |-> "n1", n2 |-> "out", val |-> <<1, 1>>],
     [k |-> "C", name |-> "C1", n1 |-> "out", n2 |-> "0", val |-> <<1, 6>>] >>

\* every kind of element; the switch and the diode carry transient state
MixedAC ==
  << acSource(<<2, 1>>, 90),
     [k |-> "R", name |-> "R1", n1 |-> "n1", n2 |-> "out", val |-> <<2, 1>>],
     [k |-> "L", name |-> "L1", n1 |-> "n1", n2 |-> "0", val |-> <<1, 6>>],
     [k |-> "C", name |-> "C1", n1 |-> "out", n2 |-> "0", val |-> <<1, 6>>],
     [k |-> "D", name |-> "D1", n1 |-> "n1", n2 |-> "out", model |-> "D", ntok |-> 4],
     [k |-> "S", name |-> "S1", n1 |-> "out", n2 |-> "0", ncPos |-> "n1",
      ncNeg |-> "0", model |-> "sw"],
     [k |-> "model", name |-> "D", type |-> "D", params |-> <<>>],
     [k |-> "model", name |-> "SW", type |-> "SW", params |-> <<>>] >>

\* a resistor of zero ohms
ZeroResistor ==
  << acSource(<<1, 1>>, 0),
     [k |-> "R", name |-> "R1", n1 |-> "n1", n2 |-> "out", val |-> <<1, 1>>],
     [k |-> "R", name |-> "R2", n1 |-> "out", n2 |-> "0", val |-> <<0, 1>>] >>

\* a node that only a capacitor reaches
Floating ==
  << acSource(<<1, 1>>, 180),
     [k |-> "R", name |-> "R1", n1 |-> "n1", n2 |-> "0", val |-> <<1, 1>>],
     [k |-> "C", name |-> "C1", n1 |-> "out", n2 |-> "b", val |-> <<1, 6>>] >>

AcCircuits == {LowPass, MixedAC, ZeroResistor, Floating}

AcPointCounts == {1, 3}
AcFrequencies == {<<-1, 1>>, <<0, 1>>, <<1, 1>>, <<2, 1>>}

\* the netlists handed to simulate(): a circuit with a sweep, or without
AcRuns ==
  {c \o <<acLine("dec", 1, f1, f2)>> : c \in AcCircuits, f1 \in AcFrequencies, f2 \in AcFrequencies}
  \cup {c \o <<acLine("lin", N, f1, f2)>> :
          c \in AcCircuits, N \in AcPointCounts, f1 \in AcFrequencies, f2 \in AcFrequencies}
  \cup {c \o <<tranLine(<<100000, 1>>, <<200000, 1>>)>> : c \in AcCircuits}

VARIABLES acLines, acCkt, acPhase, acFreqs, acK, acSys, acNodeVoltages,
          acElementCurrents, acResult, acErr, acTran

acVars == <<acLines, acCkt, acPhase, acFreqs, acK, acSys, acNodeVoltages,
            acElementCurrents, acResult, acErr, acTran>>

ACInit ==
  /\ acLines = <<>>
  /\ acCkt = CircuitNew
  /\ acPhase = "idle"
  /\ acFreqs = <<>>
  /\ acK = 1
  /\ acSys = zeroSystem(0)
  /\ acNodeVoltages = <<>>
  /\ acElementCurrents = <<>>
  /\ acResult = NULL
  /\ acErr = "none"
  /\ acTran = NULL

\* simulate(netlistText) up to the loop over the frequencies of simulateAC
SimulateAC(lines) ==
  /\ acPhase = "idle"
  /\ acLines' = lines
  /\ LET c == parseNetlist(lines)
     IN  /\ acCkt' = c
         /\ IF c.analyses.ac = NULL
              THEN /\ acPhase' = "returned"
                   /\ UNCHANGED <<acFreqs, acNodeVoltages, acErr>>
              ELSE LET fr == freqsOf(c.analyses.ac)
                   IN  /\ acPhase' = IF fr.err = "none" THEN "loop" ELSE "threw"
                       /\ acErr' = fr.err
                       /\ acFreqs' = fr.freqs
                       /\ acNodeVoltages' =
                            [name \in {c.nodes.rev[i] : i \in 2..count(c.nodes)} |-> <<>>]
  /\ UNCHANGED <<acK, acSys, acElementCurrents, acResult, acTran>>

\* the loop body for the frequency acFreqs[acK]: assembly, solution and
\* the recording of the point
pointBody ==
  /\ acPhase = "loop"
  /\ acK <= Len(acFreqs)
  /\ LET f == acFreqs[acK]
         M == assembleAC(acCkt, f)
         s == solveSystem("complex", M)
     IN  /\ acSys' = M
         /\ IF M.err # "none"
              THEN /\ acPhase' = "threw"
                   /\ acErr' = M.err
                   /\ UNCHANGED <<acK, acNodeVoltages, acElementCurrents>>
              ELSE IF s.err # "none"
                THEN /\ acPhase' = "threw"
                     /\ acErr' = s.err
                     /\ UNCHANGED <<acK, acNodeVoltages, acElementCurrents>>
                ELSE /\ acNodeVoltages' = pushPhasors(acNodeVoltages, acCkt, s.x)
                     /\ acElementCurrents' =
                          pushCurrents(acElementCurrents, currentsAC(acCkt, s.x, f))
                     /\ acK' = acK + 1
                     /\ UNCHANGED <<acPhase, acErr>>
  /\ UNCHANGED <<acLines, acFreqs, acResult, acTran>>

\* a loop body that keeps the capacitor voltages in the elements
FrequencyPointStoringState ==
  /\ pointBody
  /\ acCkt' = [acCkt EXCEPT !.C = [i \in 1..Len(acCkt.C) |->
                                     [acCkt.C[i] EXCEPT !.vPrev = 1]]]

\* the loop body reads the circuit and writes none of it
FrequencyPoint == pointBody /\ UNCHANGED acCkt

\* return { freqs, nodeVoltages, elementCurrents }
ReturnAC ==
  /\ acPhase = "loop"
  /\ acK > Len(acFreqs)
  /\ acPhase' = "returned"
  /\ acResult' = [freqs |-> acFreqs, nodeVoltages |-> acNodeVoltages,
                  elementCurrents |-> acElementCurrents]
  /\ UNCHANGED <<acLines, acCkt, acFreqs, acK, acSys, acNodeVoltages,
                 acElementCurrents, acErr, acTran>>

\* const tran = simulateTRAN(circuit): the circuit the transient run starts on
TranAfterAC ==
  /\ acPhase = "returned"
  /\ acPhase' = "tran"
  /\ acTran' = acCkt
  /\ UNCHANGED <<acLines, acCkt, acFreqs, acK, acSys, acNodeVoltages,
                 acElementCurrents, acResult, acErr>>

(***************************************************************************)
(* The assembly of a transient iterate, stampAllElementsAtTime, in the     *)
(* three versions: "v1" (trapezoidal companions), "v3" and "p5" (backward  *)
(* Euler).  The context ctx of an assembly holds the value of the          *)
(* time-varying sources at t (level), dt, and the companion of the diodes: *)
(* the exponential is not evaluated, gd, ieq and the limited voltage vlim  *)
(* are values of the context.                                              *)
(***************************************************************************)
\* the elements with their kinds, in the order the code stamps them
tagged(kind, elems) == [i \in 1..Len(elems) |-> [kind |-> kind, e |-> elems[i], idx |-> i]]

fixedOrder(c) ==
  tagged("R", c.R) \o tagged("C", c.C) \o tagged("L", c.L) \o tagged("S", c.S)
    \o tagged("V", c.V) \o tagged("D", c.D)

\* A, b and the diode linearization array before the stamps
zeroTran(c) ==
  [A |-> zeroSystem(Nvar(c)).A, b |-> zeroSystem(Nvar(c)).b, err |-> "none",
   lin |-> [i \in 1..Len(c.D) |-> 0]]

\* Gc and Ieq of a capacitor
capacitorCompanion(version, e, dt) ==
  LET h == RMax(dt, EPS)
      Gc == IF version = "v1" THEN RDiv(RMul(<<2, 1>>, e.C), h) ELSE RDiv(e.C, h)
  IN  [G |-> Gc,
       Ieq |-> IF version = "v1"
                 THEN RSub(RSub(<<0, 1>>, RMul(Gc, RInt(e.vPrev))), e.iPrev)
                 ELSE RSub(<<0, 1>>, RMul(Gc, RInt(e.vPrev)))]

\* Gl and the current source of an inductor
inductorCompanion(version, e, dt) ==
  LET h == RMax(dt, EPS)
      Gl == IF version = "v1" THEN RDiv(h, RMul(<<2, 1>>, e.L)) ELSE RDiv(h, e.L)
  IN  [G |-> Gl,
       Ieq |-> IF version = "v1" THEN RAdd(e.iPrev, RMul(Gl, RInt(e.vPrev)))
               ELSE e.iPrev]

\* 1 / Math.max(Math.abs(Rvalue), EPS)
switchConductance(sw) ==
  RDiv(<<1, 1>>, RMax(RAbs(IF sw.isOn THEN sw.model.Ron ELSE sw.model.Roff), EPS))

\* vs.waveform ? vs.waveform(t) : vs.dc || 0
sourceValue(vs, ctx) == IF vs.waveform # NULL THEN ctx.level ELSE vs.dc

\* the stamps of one element
stampElementTRAN(version, M, te, ctx) ==
  LET e == te.e
  IN  CASE te.kind = "R" -> stampAdmittance(M, e.n1, e.n2, CReal(RDiv(<<1, 1>>, e.R)))
        [] te.kind = "C" ->
             stampCurrent(stampAdmittance(M, e.n1, e.n2,
                                          CReal(capacitorCompanion(version, e, ctx.dt).G)),
                          e.n1, e.n2, CReal(capacitorCompanion(version, e, ctx.dt).Ieq))
        [] te.kind = "L" ->
             stampCurrent(stampAdmittance(M, e.n1, e.n2,
                                          CReal(inductorCompanion(version, e, ctx.dt).G)),
                          e.n1, e.n2, CReal(inductorCompanion(version, e, ctx.dt).Ieq))
        [] te.kind = "S" ->
             IF e.model = NULL THEN M
             ELSE stampAdmittance(M, e.n1, e.n2, CReal(switchConductance(e)))
        [] te.kind = "V" -> stampVoltageSource(M, e, CReal(RInt(sourceValue(e, ctx))))
        [] te.kind = "D" ->
             IF e.model = NULL THEN M
             ELSE LET M1 == IF version = "v3" /\ M.err = "none"
                              THEN [M EXCEPT !.lin[te.idx] = ctx.vlim] ELSE M
                  IN  stampCurrent(stampAdmittance(M1, e.nPlus, e.nMinus, CReal(ctx.gd)),
                                   e.nPlus, e.nMinus, CReal(ctx.ieq))

\* the stamps of the elements in the order of the sequence elems
RECURSIVE stampInOrder(_, _, _, _)
stampInOrder(version, M, elems, ctx) ==
  IF elems = <<>> THEN M
  ELSE CHOOSE r \in {stampInOrder(version, m, Tail(elems), ctx) :
                       m \in {stampElementTRAN(version, M, Head(elems), ctx)}} : TRUE

stampAllElementsAtTime(version, c, ctx) ==
  stampInOrder(version, zeroTran(c), fixedOrder(c), ctx)

\* the nodes of an element
elementNodes(te) ==
  CASE te.kind = "D" -> {te.e.nPlus, te.e.nMinus}
    [] te.kind = "S" -> {te.e.n1, te.e.n2, te.e.ncPos, te.e.ncNeg}
    [] OTHER -> {te.e.n1, te.e.n2}

\* the indices at which the code reads the solution vector x: x[id - 1] of
\* every node but ground, x[n - 1] of the nodes of the elements, x[vs.index]
readIndices(c) ==
  {id - 1 : id \in 1..(count(c.nodes) - 1)}
    \cup {c.V[i].index : i \in 1..Len(c.V)}
    \cup {n - 1 : n \in UNION {elementNodes(fixedOrder(c)[k]) :
                                 k \in 1..Len(fixedOrder(c))} \ {0}}

\* a circuit in the middle of a run: the element state after a step that
\* was accepted with the solution xv, and the switches on or off
midRun(version, c, xv, dt, on) ==
  [updateElementState(version, c, xv, dt) EXCEPT
     !.S = [i \in 1..Len(c.S) |-> [c.S[i] EXCEPT !.isOn = on]]]

StampVersions == {"v1", "v3", "p5"}

\* the netlists assembled, each with the orders its elements are stamped in
\* one element of every kind, the source time-varying
OneOfEach ==
  << [k |-> "V", name |-> "V1", n1 |-> "n1", n2 |-> "0", dc |-> 0,
      waveform |-> PWL({0, 5})],
     [k |-> "R", name |-> "R1", n1 |-> "n1", n2 |-> "out", val |-> <<2, 1>>],
     [k |-> "C", name |-> "C1", n1 |-> "out", n2 |-> "0", val |-> <<1, 4>>],
     [k |-> "L", name |-> "L1", n1 |-> "n1", n2 |-> "out", val |-> <<8, 1>>],
     [k |-> "D", name |-> "D1", n1 |-> "out", n2 |-> "0", model |-> "D", ntok |-> 4],
     [k |-> "S", name |-> "S1", n1 |-> "out", n2 |-> "0", ncPos |-> "n1",
      ncNeg |-> "0", model |-> "sw"],
     [k |-> "model", name |-> "D", type |-> "D", params |-> <<>>],
     [k |-> "model", name |-> "SW", type |-> "SW",
      params |-> << <<"Von", <<5, 1>> >>, <<"Voff", <<2, 1>> >>,
                    <<"Roff", <<1000, 1>> >> >>],
     tranLine(<<100000, 1>>, <<200000, 1>>) >>

\* two sources in series, one of them time-varying, across a resistor
TwoSources ==
  << [k |-> "V", name |-> "V1", n1 |-> "n1", n2 |-> "0", dc |-> 6,
      waveform |-> PWL({0, 5}), acMag |-> <<1, 1>>, acPhaseDeg |-> 0],
     [k |-> "V", name |-> "V2", n1 |-> "out", n2 |-> "n1", dc |-> 3,
      waveform |-> NULL, acMag |-> <<2, 1>>, acPhaseDeg |-> 90],
     [k |-> "R", name |-> "R1", n1 |-> "out", n2 |-> "0", val |-> <<2, 1>>],
     acLine("lin", 1, <<1, 1>>, <<1, 1>>) >>

\* the netlists assembled
StampNetlists == {OneOfEach, DrivenSwitch(<<200000, 1>>, <<500000, 1>>, {0, 5}), TwoSources}

\* the iterates assembled: the first one of a run, and one in the middle of
\* a run with the switches on
StampCases ==
  {[started |-> FALSE,
    ctx |-> [level |-> 0, dt |-> <<0, 1>>, gd |-> <<1, 1000>>, ieq |-> <<0, 1>>, vlim |-> 0]],
   [started |-> TRUE,
    ctx |-> [level |-> 5, dt |-> <<1, 1>>, gd |-> <<3, 1>>, ieq |-> <<-2, 1>>, vlim |-> 1]]}

VARIABLES stKind, stCkt, stSys, stPermuted, stOrder, stCtx

stVars == <<stKind, stCkt, stSys, stPermuted, stOrder, stCtx>>

StInit ==
  /\ stKind = "none"
  /\ stCkt = CircuitNew
  /\ stSys = zeroTran(CircuitNew)
  /\ stPermuted = zeroTran(CircuitNew)
  /\ stOrder = <<>>
  /\ stCtx = NULL

\* one assembly of a transient iterate, in the order of the code and in the
\* order perm of the same elements
AssembleTRAN(version, lines, started, ctx, perm) ==
  /\ stKind = "none"
  /\ \E c0 \in {parseNetlist(lines)} :
    \E c \in {IF started
                THEN midRun(version, c0, [i \in 1..Nvar(c0) |-> i], ctx.dt, ctx.level = 5)
                ELSE c0} :
      \E elems \in {fixedOrder(c)} :
        /\ DOMAIN perm = 1..Len(elems)
        /\ stKind' = "tran"
        /\ stCkt' = c
        /\ stSys' = stampAllElementsAtTime(version, c, ctx)
        /\ stPermuted' = stampInOrder(version, zeroTran(c),
                                      [k \in 1..Len(elems) |-> elems[perm[k]]], ctx)
        /\ stOrder' = perm
        /\ stCtx' = ctx

\* one assembly of a frequency point
AssembleAC(lines, f) ==
  LET c == parseNetlist(lines)
  IN  /\ stKind = "none"
      /\ c.analyses.ac # NULL
      /\ stKind' = "ac"
      /\ stCkt' = c
      /\ stSys' = assembleAC(c, f)
      /\ stPermuted' = assembleAC(c, f)
      /\ stOrder' = <<>>
      /\ stCtx' = [f |-> f]

(***************************************************************************)
(* The real stamping primitives called one after another on one system of  *)
(* three unknowns: the nodes 1 and 2 and the branch of a source of index   *)
(* 2.  prPrev is the system before the last call, prOp the call.           *)
(***************************************************************************)
PrimN == 3

MaxStamps == 2

PrimNodes == 0..2

\* the value stamped: an admittance, a current, a voltage
PrimValue == <<3, 2>>

VARIABLES prSys, prPrev, prOp, prCount

prVars == <<prSys, prPrev, prOp, prCount>>

PrInit ==
  /\ prSys = zeroSystem(PrimN)
  /\ prPrev = zeroSystem(PrimN)
  /\ prOp = [kind |-> "none", n1 |-> 0, n2 |-> 0]
  /\ prCount = 0

\* the result of a call on the system M
applyStamp(M, op) ==
  IF op.kind = "admittance" THEN stampAdmittance(M, op.n1, op.n2, CReal(PrimValue))
  ELSE IF op.kind = "current" THEN stampCurrent(M, op.n1, op.n2, CReal(PrimValue))
  ELSE stampVoltageSource(M, [n1 |-> op.n1, n2 |-> op.n2, index |-> PrimN - 1],
                          CReal(PrimValue))

Stamp(kind, n1, n2) ==
  /\ prCount < MaxStamps
  /\ prPrev' = prSys
  /\ prOp' = [kind |-> kind, n1 |-> n1, n2 |-> n2]
  /\ prSys' = applyStamp(prSys, [kind |-> kind, n1 |-> n1, n2 |-> n2])
  /\ prCount' = prCount + 1

StampAdmittanceReal(n1, n2) == Stamp("admittance", n1, n2)

StampCurrentReal(n1, n2) == Stamp("current", n1, n2)

StampVoltageSourceReal(n1, n2) == Stamp("voltage", n1, n2)

(***************************************************************************)
(* The waveform evaluators: parsePulseArgs, pulseValue, parsePwlArgs and   *)
(* pwlValue.  Times are rationals in the unit in which EPS is 1/2, values  *)
(* are rationals.  A waveform is parsed once and then evaluated at         *)
(* increasing times, as the time loop of simulateTRAN does.                *)
(***************************************************************************)
\* the number Infinity, the default of ncycles
Infinity == <<1, 0>>
MaxPairs == 3
PulseLevels == {<<RInt(0), RInt(4)>>, <<RInt(4), RInt(-4)>>}
PulseDelays == {RInt(0), RInt(1)}
PulseEdges == {RInt(0), <<1, 4>>, RInt(2)}
PulseWidths == {RInt(0), RInt(1)}
PulsePeriods == {RInt(2), RInt(4)}
PulseCycles == {UNDEFINED, RInt(2)}
PwlTimes == {RInt(0), <<1, 4>>, RInt(1)}
PwlLevels == {RInt(0), RInt(5)}
PwlPoints == [t : PwlTimes, v : PwlLevels]
RECURSIVE SeqsUpTo(_, _)
SeqsUpTo(S, n) ==
  IF n = 0 THEN {<<>>}
  ELSE LET shorter == SeqsUpTo(S, n - 1)
       IN  shorter \cup {Append(s, e) : s \in {q \in shorter : Len(q) = n - 1}, e \in S}
\* the times at which a pulse is evaluated: eighths from -1 to MaxTime
MaxTime == 6
EvalTimes == {Rat(k, 8) : k \in (-8)..(8 * MaxTime)}
\* the times at which a PWL source is evaluated: eighths from -1/2 to 3/2
PwlEvalTimes == {Rat(k, 8) : k \in (-4)..12}

parsePulseArgs(vals) ==
  [v1 |-> vals[1], v2 |-> vals[2], td |-> vals[3], tr |-> vals[4],
   tf |-> vals[5], ton |-> vals[6], period |-> vals[7],
   ncycles |-> IF Len(vals) >= 8 THEN vals[8] ELSE Infinity]

\* the pulse's value when every cycle is counted out to the end of the
\* pulse train, i.e. when the cycle of t is not reduced modulo the period
pulseValueOneCycle(p, t) ==
  IF RLt(t, p.td) THEN p.v1
  ELSE
    LET tc == RSub(t, p.td)
    IN  IF RLt(tc, p.tr)
          THEN RAdd(p.v1, RMul(RSub(p.v2, p.v1), RDiv(tc, RMax(p.tr, EPS))))
        ELSE IF RLt(tc, RAdd(p.tr, p.ton)) THEN p.v2
        ELSE IF RLt(tc, RAdd(RAdd(p.tr, p.ton), p.tf))
          THEN RAdd(p.v2, RMul(RSub(p.v1, p.v2),
                               RDiv(RSub(tc, RAdd(p.tr, p.ton)), RMax(p.tf, EPS))))
        ELSE p.v1

\* k >= n for an integer k and a number n that may be Infinity
atLeast(k, n) == n # Infinity /\ RLe(n, RInt(k))

pulseValue(p, t) ==
  IF RLt(t, p.td) THEN p.v1
  ELSE
    LET tt == RSub(t, p.td)
        cyclesDone == RFloor(RDiv(tt, p.period))
    IN  IF atLeast(cyclesDone, p.ncycles) THEN p.v1
        ELSE
          LET tc == RSub(tt, RMul(RInt(cyclesDone), p.period))
          IN  IF RLt(tc, p.tr)
                THEN RAdd(p.v1, RMul(RSub(p.v2, p.v1), RDiv(tc, RMax(p.tr, EPS))))
              ELSE IF RLt(tc, RAdd(p.tr, p.ton)) THEN p.v2
              ELSE IF RLt(tc, RAdd(RAdd(p.tr, p.ton), p.tf))
                THEN RAdd(p.v2, RMul(RSub(p.v1, p.v2),
                                     RDiv(RSub(tc, RAdd(p.tr, p.ton)), RMax(p.tf, EPS))))
              ELSE p.v1

\* the loop of pwlValue from index i on
RECURSIVE pwlFrom(_, _, _)
pwlFrom(pairs, t, i) ==
  IF i > Len(pairs) THEN pairs[Len(pairs)].v
  ELSE
    LET prev == pairs[i - 1]
        curr == pairs[i]
    IN  IF RLe(t, curr.t)
          THEN LET dt == RMax(RSub(curr.t, prev.t), EPS)
                   a == RDiv(RSub(t, prev.t), dt)
               IN  RAdd(prev.v, RMul(RSub(curr.v, prev.v), a))
          ELSE pwlFrom(pairs, t, i + 1)

\* pwlValue with the interpolation left out: the value of the last point
\* whose time is not after t
pwlValueStairs(pairs, t) ==
  IF Len(pairs) = 0 THEN RInt(0)
  ELSE IF RLe(t, pairs[1].t) THEN pairs[1].v
  ELSE pairs[CHOOSE i \in 1..Len(pairs) :
               /\ RLe(pairs[i].t, t)
               /\ \A j \in (i + 1)..Len(pairs) : ~RLe(pairs[j].t, t)].v

pwlValue(pairs, t) ==
  IF Len(pairs) = 0 THEN RInt(0)
  ELSE IF RLe(t, pairs[1].t) THEN pairs[1].v
  ELSE pwlFrom(pairs, t, 2)

VARIABLES wSrc, wT, wValue

wVars == <<wSrc, wT, wValue>>

NoWaveform == [kind |-> "none"]

WInit ==
  /\ wSrc = NoWaveform
  /\ wT = RInt(0)
  /\ wValue = RInt(0)

\* a V line with PULSE(v1 v2 td tr tf ton period [ncycles]) is parsed
ParsePulse(levels, td, tr, tf, ton, period, ncycles) ==
  /\ wSrc = NoWaveform
  /\ wSrc' = [kind |-> "pulse",
              p |-> parsePulseArgs(<<levels[1], levels[2], td, tr, tf, ton, period>>
                                   \o (IF ncycles = UNDEFINED THEN <<>> ELSE <<ncycles>>))]
  /\ wT' = RInt(0)
  /\ wValue' = RInt(0)

\* a V line with PWL(t1 v1 t2 v2 ...) is parsed
ParsePwl(pairs) ==
  /\ wSrc = NoWaveform
  /\ Len(pairs) > 0
  /\ wSrc' = [kind |-> "pwl", pairs |-> pairs]
  /\ wT' = RInt(0)
  /\ wValue' = RInt(0)

\* the waveform closure of a pulse source is called
EvalPulse(t) ==
  /\ wSrc.kind = "pulse" \/ (wSrc.kind = "pulse evaluated" /\ RLt(wT, t))
  /\ wSrc' = [wSrc EXCEPT !.kind = "pulse evaluated"]
  /\ wT' = t
  /\ wValue' = pulseValue(wSrc.p, t)

\* the waveform closure of a PWL source is called
EvalPwl(t) ==
  /\ wSrc.kind = "pwl" \/ (wSrc.kind = "pwl evaluated" /\ RLt(wT, t))
  /\ wSrc' = [wSrc EXCEPT !.kind = "pwl evaluated"]
  /\ wT' = t
  /\ wValue' = pwlValue(wSrc.pairs, t)

(***************************************************************************)
(* simulateTRAN called a second time on the circuit a first call has       *)
(* returned from.  The circuit object is the one the first call worked on, *)
(* with the element state that call left in it; the locals of the function *)
(* are created anew.  The sources are constant: they deliver one level at  *)
(* every time point of both calls.                                         *)
(***************************************************************************)
VARIABLES runNo, firstResult, inputs

rrVars == <<runNo, firstResult, inputs>>

RRInit ==
  /\ runNo = 1
  /\ firstResult = NULL
  /\ inputs = <<>>

RerunRuns ==
  { [impl |-> "v3", lines |-> DrivenSwitch(<<200000, 1>>, <<200000, 1>>, {0, 6})],
    [impl |-> "v3", lines |-> AllElements(<<200000, 1>>, <<200000, 1>>)],
    [impl |-> "p5", lines |-> DrivenSwitch(<<200000, 1>>, <<200000, 1>>, {0, 6})],
    [impl |-> "p5", lines |-> AllElements(<<200000, 1>>, <<200000, 1>>)],
    [impl |-> "v1", lines |-> AllElements(<<200000, 1>>, <<200000, 1>>)],
    [impl |-> "v3", lines |-> DiodeDrive(<<200000, 1>>, <<200000, 1>>, {0, 700000})] }

\* the response at a time point is the one of the first time point
SameInput(r) ==
  /\ inputs # <<>> => r = inputs[1]
  /\ inputs' = <<r>>
  /\ UNCHANGED <<runNo, firstResult>>

\* simulateTRAN(ckt) on the circuit of the call that has returned
SimulateAgain ==
  /\ tphase = "returned"
  /\ runNo = 1
  /\ tckt.analyses.tran # NULL
  /\ runNo' = 2
  /\ firstResult' = result
  /\ tphase' = "loop"
  /\ grid' = gridOf(impl, tckt.analyses.tran.dt, tckt.analyses.tran.tstop)
  /\ xPrevStep' = [i \in 1..Nvar(tckt) |-> 0]
  /\ nodeVoltages' =
       [name \in {tckt.nodes.rev[i] : i \in 2..count(tckt.nodes)} |-> <<>>]
  /\ times' = <<>>
  /\ elementCurrents' = <<>>
  /\ idx' = 1
  /\ outputIndex' = 1
  /\ nextOutputTime' = <<0, 1>>
  /\ result' = NULL
  /\ UNCHANGED <<impl, tckt, stepDt, iter, x, resp, obs, terr, diodeLinearization, inputs>>

(***************************************************************************)
(* Specifications.  Each one runs one part of the program and holds the    *)
(* variables of the other parts at their initial values.                   *)
(***************************************************************************)
\* the variables of the parts that have one specification each
auxVars == <<prVars, wVars, rrVars>>

vars == <<niVars, pVars, sVars, tVars, acVars, stVars, auxVars>>

AuxInit == PrInit /\ WInit /\ RRInit

Init == NIInit /\ PInit /\ SInit /\ TInit /\ ACInit /\ StInit /\ AuxInit

SpecNodeIndex ==
  /\ Init
  /\ [][NINext /\ UNCHANGED <<pVars, sVars, tVars, acVars, stVars, auxVars>>]_vars

ParseNext ==
  \/ (\E ln \in NetlistLines : ParseLineStep(ln)) /\ UNCHANGED <<niVars, sVars, tVars, acVars, stVars, auxVars>>
  \/ ParseFinish /\ UNCHANGED <<niVars, sVars, tVars, acVars, stVars, auxVars>>
  \/ RunAC /\ UNCHANGED <<niVars, sVars, tVars, acVars, stVars, auxVars>>
  \/ RunTRAN /\ UNCHANGED <<niVars, sVars, tVars, acVars, stVars, auxVars>>

SpecParse == Init /\ [][ParseNext]_vars

ModelsNext ==
  \/ (\E ln \in ModelLines : nread < MaxModelLines /\ ParseLineStep(ln))
       /\ UNCHANGED <<niVars, sVars, tVars, acVars, stVars, auxVars>>
  \/ ParseFinish /\ UNCHANGED <<niVars, sVars, tVars, acVars, stVars, auxVars>>
  \/ RunAC /\ UNCHANGED <<niVars, sVars, tVars, acVars, stVars, auxVars>>
  \/ RunTRAN /\ UNCHANGED <<niVars, sVars, tVars, acVars, stVars, auxVars>>

SpecModels == Init /\ [][ModelsNext]_vars

SolveNext ==
  \/ (\E kind \in {"real", "complex"} : StartAnalysis(kind)) /\ UNCHANGED <<niVars, pVars, tVars, acVars, stVars, auxVars>>
  \/ (\E n \in 1..MaxN : \E c \in [Pairs(n) -> 1..Len(DiagEntries("real"))] :
        StartSolve(n, c)) /\ UNCHANGED <<niVars, pVars, tVars, acVars, stVars, auxVars>>
  \/ PivotStep /\ UNCHANGED <<niVars, pVars, tVars, acVars, stVars, auxVars>>
  \/ BackSubstitute /\ UNCHANGED <<niVars, pVars, tVars, acVars, stVars, auxVars>>
  \/ RecordPoint /\ UNCHANGED <<niVars, pVars, tVars, acVars, stVars, auxVars>>
  \/ ReturnResult /\ UNCHANGED <<niVars, pVars, tVars, acVars, stVars, auxVars>>

SpecSolve == Init /\ [][SolveNext]_vars

TranNext ==
  \/ \E run \in TranRuns : SimulateTRAN(run) /\ UNCHANGED <<niVars, pVars, sVars, acVars, stVars, auxVars>>
  \/ \E r \in Responses(tckt) : BeginStep(r) /\ UNCHANGED <<niVars, pVars, sVars, acVars, stVars, auxVars>>
  \/ NewtonIteration /\ UNCHANGED <<niVars, pVars, sVars, acVars, stVars, auxVars>>
  \/ AcceptStep /\ UNCHANGED <<niVars, pVars, sVars, acVars, stVars, auxVars>>
  \/ ReturnTRAN /\ UNCHANGED <<niVars, pVars, sVars, acVars, stVars, auxVars>>

SpecTran == Init /\ [][TranNext]_vars

ACNext ==
  \/ \E lines \in AcRuns : SimulateAC(lines) /\ UNCHANGED <<niVars, pVars, sVars, tVars, stVars, auxVars>>
  \/ FrequencyPoint /\ UNCHANGED <<niVars, pVars, sVars, tVars, stVars, auxVars>>
  \/ ReturnAC /\ UNCHANGED <<niVars, pVars, sVars, tVars, stVars, auxVars>>
  \/ TranAfterAC /\ UNCHANGED <<niVars, pVars, sVars, tVars, stVars, auxVars>>

SpecAC == Init /\ [][ACNext]_vars

PermutationsOf(lines) == Permutations(1..Len(fixedOrder(parseNetlist(lines))))

StampNext ==
  \/ \E version \in StampVersions, lines \in StampNetlists, case \in StampCases :
        \E perm \in PermutationsOf(lines) :
          AssembleTRAN(version, lines, case.started, case.ctx, perm)
            /\ UNCHANGED <<niVars, pVars, sVars, tVars, acVars, auxVars>>
  \/ \E lines \in AcRuns \cup {TwoSources}, f \in AcFrequencies :
        AssembleAC(lines, f) /\ UNCHANGED <<niVars, pVars, sVars, tVars, acVars, auxVars>>

SpecStamp == Init /\ [][StampNext]_vars

\* what a specification about one auxiliary part leaves alone
mainVars == <<niVars, pVars, sVars, tVars, acVars, stVars>>

PrimitivesNext ==
  \/ \E n1 \in PrimNodes, n2 \in PrimNodes :
        StampAdmittanceReal(n1, n2) /\ UNCHANGED <<mainVars, wVars, rrVars>>
  \/ \E n1 \in PrimNodes, n2 \in PrimNodes :
        StampCurrentReal(n1, n2) /\ UNCHANGED <<mainVars, wVars, rrVars>>
  \/ \E n1 \in PrimNodes, n2 \in PrimNodes :
        StampVoltageSourceReal(n1, n2) /\ UNCHANGED <<mainVars, wVars, rrVars>>

SpecPrimitives == Init /\ [][PrimitivesNext]_vars

WaveNext ==
  \/ \E levels \in PulseLevels, td \in PulseDelays, tr \in PulseEdges, tf \in PulseEdges,
        ton \in PulseWidths, period \in PulsePeriods, ncycles \in PulseCycles :
        ParsePulse(levels, td, tr, tf, ton, period, ncycles) /\ UNCHANGED <<mainVars, prVars, rrVars>>
  \/ \E pairs \in SeqsUpTo(PwlPoints, MaxPairs) :
        ParsePwl(pairs) /\ UNCHANGED <<mainVars, prVars, rrVars>>
  \/ \E t \in EvalTimes : EvalPulse(t) /\ UNCHANGED <<mainVars, prVars, rrVars>>
  \/ \E t \in PwlEvalTimes : EvalPwl(t) /\ UNCHANGED <<mainVars, prVars, rrVars>>

SpecWave == Init /\ [][WaveNext]_vars

notTran == <<niVars, pVars, sVars, acVars, stVars, prVars, wVars>>

RerunNext ==
  \/ \E run \in RerunRuns : SimulateTRAN(run) /\ UNCHANGED <<notTran, rrVars>>
  \/ \E r \in Responses(tckt) : BeginStep(r) /\ SameInput(r) /\ UNCHANGED notTran
  \/ NewtonIteration /\ UNCHANGED <<notTran, rrVars>>
  \/ AcceptStep /\ UNCHANGED <<notTran, rrVars>>
  \/ ReturnTRAN /\ UNCHANGED <<notTran, rrVars>>
  \/ SimulateAgain /\ UNCHANGED notTran

SpecRerun == Init /\ [][RerunNext]_vars

(* C6.  After any sequence of getOrCreate calls: two known names have the  *)
(* same id iff they are equal ignoring case; ids are dense 0..count()-1    *)
(* and rev[id] is a casing of the key with that id; '0' has id 0 and       *)
(* display '0'; matrixIndexOfNode(0) = -1 and id - 1 otherwise; a call     *)
(* with a known name returns the existing id and leaves count() and rev    *)
(* unchanged; a call with a new name returns the next id and appends the   *)
(* name as given, so rev keeps the casing seen first, in order of first    *)
(* occurrence.                                                             *)
(***************************************************************************)
SameIgnoringCase(a, b) == toLowerCase(a) = toLowerCase(b)

Known(ni, name) == \E i \in 1..Len(ni.rev) : SameIgnoringCase(ni.rev[i], name)

C6_State ==
  /\ \A a \in NodeNames : Known(nodes, a) <=> has(nodes, a)
  /\ \A a, b \in NodeNames :
       (Known(nodes, a) /\ Known(nodes, b)) =>
         ((get(nodes, a) = get(nodes, b)) <=> SameIgnoringCase(a, b))
  /\ \A i \in 1..count(nodes) :
       has(nodes, nodes.rev[i]) /\ get(nodes, nodes.rev[i]) = i - 1
  /\ has(nodes, "0") /\ get(nodes, "0") = 0 /\ nodes.rev[1] = "0"
  /\ matrixIndexOfNode(0) = -1
  /\ \A id \in 1..(count(nodes) - 1) : matrixIndexOfNode(id) = id - 1

C6_Step ==
  /\ \A i \in 1..Len(nodes.rev) :
       i <= Len(nodes'.rev) /\ nodes'.rev[i] = nodes.rev[i]
  /\ Known(nodes, ret'.name) =>
       /\ nodes'.rev = nodes.rev
       /\ ret'.id = get(nodes, ret'.name)
  /\ ~Known(nodes, ret'.name) =>
       /\ ret'.id = count(nodes)
       /\ nodes'.rev = Append(nodes.rev, ret'.name)

Returned ==
  \/ phase \in {"ac", "tran", "done"}
  \/ phase = "error" /\ perr.kind = "analysis"

(***************************************************************************)
(* C7.  In every circuit parseNetlist returns, the k-th voltage source     *)
(* (0-based) has index (nodes.count() - 1) + k with the final node count,  *)
(* so the indices of distinct sources differ, none is a node variable      *)
(* index id - 1, every one is below Nvar, and no analysis changes an       *)
(* index afterwards.                                                       *)
(***************************************************************************)
C7_State ==
  Returned =>
    /\ \A i \in 1..Len(ckt.V) : ckt.V[i].index = (count(ckt.nodes) - 1) + (i - 1)
    /\ \A i, j \in 1..Len(ckt.V) : i # j => ckt.V[i].index # ckt.V[j].index
    /\ \A i \in 1..Len(ckt.V) : \A id \in 1..(count(ckt.nodes) - 1) :
         ckt.V[i].index # matrixIndexOfNode(id)
    /\ \A i \in 1..Len(ckt.V) : ckt.V[i].index >= 0 /\ ckt.V[i].index < Nvar(ckt)

C7_Step ==
  Returned =>
    /\ Returned'
    /\ Len(ckt'.V) = Len(ckt.V)
    /\ count(ckt'.nodes) = count(ckt.nodes)
    /\ \A i \in 1..Len(ckt.V) : ckt'.V[i].index = ckt.V[i].index

C7_VoltageSourceIndex == []C7_State /\ [][C7_Step]_vars

\* two sources, the second one's line brings a node the first never saw,
\* and the transient analysis has run
C7_Witness ==
  /\ phase = "done"
  /\ Len(ckt.V) = 2
  /\ count(ckt.nodes) = 3
  /\ ckt.V[1].n1 = 1 /\ ckt.V[2].n1 = 2
  /\ ckt.V[1].index = 2

(***************************************************************************)
(* C8.  parseNetlist returns a circuit only if every switch and every      *)
(* diode ends with a non-null model found under its lower-cased model name *)
(* among the .model entries of its own kind, whatever the order of the     *)
(* lines; otherwise it raises an error naming the missing model and        *)
(* neither AC nor TRAN analysis is started.                                *)
(***************************************************************************)
AllResolvable(c) ==
  /\ \A i \in 1..Len(c.S) : c.S[i].modelName \in DOMAIN c.models.vswitch
  /\ \A i \in 1..Len(c.D) : c.D[i].modelName \in DOMAIN c.models.diode

C8_State ==
  /\ Returned =>
       /\ \A i \in 1..Len(ckt.S) :
            /\ ckt.S[i].model # NULL
            /\ ckt.S[i].modelName = toLowerCase(ckt.S[i].modelName)
            /\ ckt.S[i].modelName \in DOMAIN ckt.models.vswitch
            /\ ckt.S[i].model = ckt.models.vswitch[ckt.S[i].modelName]
            /\ toLowerCase(ckt.S[i].model.name) = ckt.S[i].modelName
       /\ \A i \in 1..Len(ckt.D) :
            /\ ckt.D[i].model # NULL
            /\ ckt.D[i].modelName = toLowerCase(ckt.D[i].modelName)
            /\ ckt.D[i].modelName \in DOMAIN ckt.models.diode
            /\ ckt.D[i].model = ckt.models.diode[ckt.D[i].modelName]
            /\ toLowerCase(ckt.D[i].model.name) = ckt.D[i].modelName
  /\ (phase = "error" /\ perr.kind = "switch") =>
       /\ ~acStarted /\ ~tranStarted
       /\ perr.modelName \notin DOMAIN ckt.models.vswitch
       /\ \E i \in 1..Len(ckt.S) :
            ckt.S[i].modelName = perr.modelName /\ ckt.S[i].name = perr.name
  /\ (phase = "error" /\ perr.kind = "diode") =>
       /\ ~acStarted /\ ~tranStarted
       /\ perr.modelName \notin DOMAIN ckt.models.diode
       /\ \E i \in 1..Len(ckt.D) :
            ckt.D[i].modelName = perr.modelName /\ ckt.D[i].name = perr.name
  /\ (acStarted \/ tranStarted) => AllResolvable(ckt)

C8_Step ==
  (phase = "parse" /\ phase' # "parse") =>
    /\ AllResolvable(ckt) => phase' = "ac"
    /\ ~AllResolvable(ckt) => (phase' = "error" /\ perr'.kind \in {"switch", "diode"})

C8_ModelResolution == []C8_State /\ [][C8_Step]_vars

\* a switch whose model line was written Sw and whose own line says SW,
\* beside a diode model of the name d, with both analyses run
C8_Witness ==
  /\ phase = "done" /\ acStarted /\ tranStarted
  /\ Len(ckt.S) = 1
  /\ ckt.S[1].model.name = "Sw"
  /\ ckt.S[1].modelName = "sw"
  /\ "d" \in DOMAIN ckt.models.diode

\* the parse stopped on a switch that names a model only the diodes have
C8_WitnessError ==
  /\ phase = "error" /\ perr.kind = "switch"
  /\ perr.modelName = "d"
  /\ "d" \in DOMAIN ckt.models.diode

(***************************************************************************)
(* C9.  A switch model line (.model of type SW or VSWITCH) delivers        *)
(* Von = Vt + Vh/2 and Voff = Vt - Vh/2 when it gives Vt, with Vh taken    *)
(* as 0 when absent; without Vt it delivers the Von and Voff of the line,  *)
(* each 0 when absent.  Von > Voff holds exactly for the lines whose       *)
(* values make it so: Vt with Vh > 0, or no Vt and a Von above Voff.       *)
(***************************************************************************)
\* the last numeric value a line gives a parameter, UNDEFINED when none
given(params, key) ==
  LET at == {i \in 1..Len(params) :
               toLowerCase(params[i][1]) = key /\ params[i][2] # NaN}
  IN  IF at = {} THEN UNDEFINED
      ELSE params[CHOOSE i \in at : \A j \in at : j <= i][2]

orZero(v) == IF v = UNDEFINED THEN <<0, 1>> ELSE v

IsSwitchModelLine(ln) ==
  ln.k = "model" /\ toLowerCase(ln.type) \in {"sw", "vswitch"}

C9_Rule(ln, m) ==
  LET vt == given(ln.params, "vt")
      vh == orZero(given(ln.params, "vh"))
      von == orZero(given(ln.params, "von"))
      voff == orZero(given(ln.params, "voff"))
  IN  /\ vt # UNDEFINED =>
           /\ m.Von = RAdd(vt, RDiv(vh, <<2, 1>>))
           /\ m.Voff = RSub(vt, RDiv(vh, <<2, 1>>))
           /\ RLt(m.Voff, m.Von) <=> RLt(<<0, 1>>, vh)
      /\ vt = UNDEFINED =>
           /\ m.Von = von
           /\ m.Voff = voff
           /\ RLt(m.Voff, m.Von) <=> RLt(voff, von)

C9_SwitchThresholds ==
  IsSwitchModelLine(lastLine) =>
    /\ toLowerCase(lastLine.name) \in DOMAIN ckt.models.vswitch
    /\ C9_Rule(lastLine, ckt.models.vswitch[toLowerCase(lastLine.name)])

\* a line with Vt and Vh was the last one read and its model is delivered
C9_Witness ==
  /\ Returned
  /\ IsSwitchModelLine(lastLine)
  /\ given(lastLine.params, "vt") = <<3, 1>>
  /\ given(lastLine.params, "vh") = <<1, 1>>
  /\ ckt.models.vswitch["sw"].Von = <<7, 2>>
  /\ ckt.models.vswitch["sw"].Voff = <<5, 2>>

\* C9 as first stated: every delivered switch model has Von > Voff
C9_VonAboveVoff ==
  Returned =>
    \A k \in DOMAIN ckt.models.vswitch :
      RLt(ckt.models.vswitch[k].Voff, ckt.models.vswitch[k].Von)

(***************************************************************************)
(* C10.  solveReal and solveComplex raise the singular-matrix error        *)
(* exactly when, at some pivot column k, every |A[i][k]| of the remaining  *)
(* rows i >= k is below EPS; they never divide by a pivot of magnitude     *)
(* below EPS; and the error is neither caught nor retried by the analysis, *)
(* which then returns no result, not even a partial one.                   *)
(***************************************************************************)
ColumnBelowEps == \A i \in sK..Len(sA) : AbsBelow(sA[i][sK], EPS)

C10_State ==
  /\ sErr = "singular" => (sPhase = "threw" /\ ColumnBelowEps)
  /\ \A p \in sDivided : ~AbsBelow(p, EPS)
  /\ sPhase = "threw" => (sErr # "none" /\ aResult = NULL)
  /\ sPhase = "solved" => sErr = "none"
  /\ aResult # NULL => (sErr = "none" /\ aPoints = MaxPoints)

C10_Step ==
  /\ (sPhase = "elim" /\ ColumnBelowEps) => (sPhase' = "threw" /\ sErr' = "singular")
  /\ (sPhase = "elim" /\ ~ColumnBelowEps) => sErr' # "singular"
  /\ sPhase # "elim" => sErr' # "singular"
  /\ sPhase = "threw" => UNCHANGED sVars

C10_SingularMatrix == []C10_State /\ [][C10_Step]_vars

\* the second system of a TRAN run is singular at its second column by an
\* entry that is not zero, after one point had been recorded
C10_Witness ==
  /\ sKind = "real"
  /\ sPhase = "threw" /\ sErr = "singular"
  /\ aPoints = 1
  /\ sK = 2
  /\ sA[2][2] # CZero
  /\ sDivided # {}

\* solveComplex stopped by Complex.div on a pivot that passed the test
C10_WitnessDivide ==
  /\ sKind = "complex"
  /\ sPhase = "threw" /\ sErr = "divide"
  /\ ~ColumnBelowEps

(***************************************************************************)
(* The claims about the transient engine (SpecTran).                       *)
(***************************************************************************)
TranResult == tphase = "returned" /\ result # NULL

\* the state a switch must have after an update, by the stated rule
claimedNextState(sw, wasOn, vc) ==
  IF wasOn
    THEN ~RLe(RInt(vc), RAdd(sw.model.Voff, CTRL_TOL))
    ELSE RLe(RSub(sw.model.Von, CTRL_TOL), RInt(vc))

(* C1.  At every switch update, a switch that is ON turns OFF iff          *)
(* vc <= Voff + 1e-6, a switch that is OFF turns ON iff vc >= Von - 1e-6,  *)
(* any other switch keeps its state, and the update reports a toggle iff   *)
(* at least one switch changed state.                                      *)
C1_SwitchUpdate ==
  /\ \A i \in DOMAIN obs.before :
       obs.after[i] = claimedNextState(tckt.S[i], obs.before[i], obs.vctrl[i])
  /\ obs.switched = (\E i \in DOMAIN obs.before : obs.after[i] # obs.before[i])

(* C2.  simulateTRAN aborts at a time point with an error that carries the *)
(* time iff none of the 20 Newton iterations of that point met the         *)
(* convergence condition (no switch changed and the largest change is      *)
(* below 1e-6); nothing is returned then, and a step is accepted only      *)
(* after an iteration that met the condition, the 20th included.           *)
C2_NewtonAbort ==
  /\ (tphase = "threw" /\ terr.kind = "newton") =>
       /\ iter = MAX_ITERS
       /\ ~obs.met
       /\ terr.t = grid.timeSeq[idx]
       /\ result = NULL
  /\ tphase = "accept" => obs.met

\* the names of the elements of a circuit
elementNames(c) ==
  {c.R[i].name : i \in 1..Len(c.R)} \cup {c.C[i].name : i \in 1..Len(c.C)}
    \cup {c.L[i].name : i \in 1..Len(c.L)} \cup {c.V[i].name : i \in 1..Len(c.V)}
    \cup {c.S[i].name : i \in 1..Len(c.S)} \cup {c.D[i].name : i \in 1..Len(c.D)}

elementCount(c) == Len(c.R) + Len(c.C) + Len(c.L) + Len(c.V) + Len(c.S) + Len(c.D)

(* C3.  In every result simulateTRAN returns there is one elementCurrents  *)
(* series per R, C, L, V, S and D element, each with exactly times.length  *)
(* entries, and before the probe filter every node but ground has a        *)
(* nodeVoltages series of times.length entries.                            *)
C3_SeriesLengths ==
  TranResult =>
    /\ DOMAIN result.elementCurrents = elementNames(tckt)
    /\ Cardinality(DOMAIN result.elementCurrents) = elementCount(tckt)
    /\ \A name \in DOMAIN result.elementCurrents :
         Len(result.elementCurrents[name]) = Len(result.times)
    /\ DOMAIN nodeVoltages = {tckt.nodes.rev[i] : i \in 2..count(tckt.nodes)}
    /\ \A name \in DOMAIN nodeVoltages : Len(nodeVoltages[name]) = Len(result.times)

\* the time points the request (dt, tstop) must give
claimedTimes(dt, tstop) ==
  LET dtEff == IF RLt(EPS, dt) THEN dt ELSE RDiv(tstop, RInt(1000))
      steps == IMax(1, RCeil(RDiv(tstop, dtEff)))
      h == RDiv(tstop, RInt(steps))
  IN  [k \in 1..(steps + 1) |-> RMul(RInt(k - 1), h)]

(* C4.  For a request (dt, tstop) with tstop > 0 the returned times are    *)
(* exactly the steps + 1 points 0, h, ..., steps * h with                  *)
(* steps = max(1, ceil(tstop / dtEff)), h = tstop / steps and dtEff = dt   *)
(* when dt > EPS, tstop / 1000 otherwise: evenly spaced, from 0 to tstop.  *)
C4_TimeGrid ==
  (TranResult /\ RLt(<<0, 1>>, tckt.analyses.tran.tstop)) =>
    result.times = claimedTimes(tckt.analyses.tran.dt, tckt.analyses.tran.tstop)

(* C5.  With a non-empty probe list the keys of the returned nodeVoltages  *)
(* are exactly the display names of the nodes other than ground whose      *)
(* upper-cased name is the upper-cased name of a probe, each with its      *)
(* complete series; with an empty probe list every node other than ground  *)
(* is returned; elementCurrents is never filtered.                         *)
C5_ProbeFilter ==
  TranResult =>
    LET probes == tckt.probes.tran
        names == {tckt.nodes.rev[i] : i \in 2..count(tckt.nodes)}
        probed == {n \in names : \E i \in 1..Len(probes) :
                                   toUpperCase(probes[i]) = toUpperCase(n)}
    IN  /\ DOMAIN result.nodeVoltages = IF probes = <<>> THEN names ELSE probed
        /\ \A n \in DOMAIN result.nodeVoltages :
             /\ result.nodeVoltages[n] = nodeVoltages[n]
             /\ Len(result.nodeVoltages[n]) = Len(result.times)
        /\ result.elementCurrents = elementCurrents

\* a probe written OUT returns the node written Out, a probe of no node
\* returns nothing, and the node n1 is filtered out
C5_Witness ==
  /\ TranResult
  /\ tckt.probes.tran = <<"OUT", "b">>
  /\ DOMAIN nodeVoltages = {"n1", "Out"}
  /\ DOMAIN result.nodeVoltages = {"Out"}
  /\ Len(result.nodeVoltages["Out"]) > 1
  /\ DOMAIN result.elementCurrents = {"V1", "R1", "S1"}

\* without probes both nodes are returned
C5_WitnessAll ==
  /\ TranResult
  /\ tckt.probes.tran = <<>>
  /\ DOMAIN result.nodeVoltages = {"n1", "out"}
  /\ Len(result.times) > 1

(***************************************************************************)
(* Claims about the AC engine.                                             *)
(***************************************************************************)
\* what a later analysis starts from: the state fields of the elements, the
\* source indices and the node index
elementState(c) ==
  [C |-> [i \in 1..Len(c.C) |-> <<c.C[i].vPrev, c.C[i].iPrev>>],
   L |-> [i \in 1..Len(c.L) |-> <<c.L[i].vPrev, c.L[i].iPrev>>],
   D |-> [i \in 1..Len(c.D) |-> c.D[i].vdPrev],
   S |-> [i \in 1..Len(c.S) |-> c.S[i].isOn],
   V |-> [i \in 1..Len(c.V) |-> c.V[i].index],
   nodes |-> c.nodes]

\* C11: simulateAC leaves every element state field, every voltage-source
\* index and the node index as the parser left them, whether it returns a
\* result, returns null or raises; the transient run that simulate() starts
\* after it is handed the same element state.
C11_ACFrame ==
  acPhase # "idle" =>
    /\ elementState(acCkt) = elementState(parseNetlist(acLines))
    /\ acPhase = "tran" => elementState(acTran) = elementState(parseNetlist(acLines))

\* a sweep of three points returned over a circuit with every kind of state
C11_Returned ==
  /\ acPhase = "tran"
  /\ acResult # NULL
  /\ Len(acResult.freqs) = 3
  /\ Len(acCkt.C) = 1 /\ Len(acCkt.L) = 1 /\ Len(acCkt.D) = 1 /\ Len(acCkt.S) = 1

\* a sweep that raised after a recorded point
C11_Raised == acPhase = "threw" /\ acK > 1 /\ Len(acCkt.C) = 1

(***************************************************************************)
(* Claims about the solvers as callees.                                    *)
(***************************************************************************)
\* C12: when solveReal or solveComplex has returned or raised, the caller's
\* A still has its n rows of n entries with the values they had at the call,
\* and the caller's b is unchanged.
C12_SolverFrame ==
  sPhase \in {"solved", "threw"} => (sA = sCall.A /\ sB = sCall.b)

\* the part of C12 about b
C12_RightHandSideKept == sPhase \in {"solved", "threw"} => sB = sCall.b

\* a solve of two unknowns that returned
C12_Solved == sPhase = "solved" /\ Len(sCall.A) = 2

\* the caller's rows after the call: one entry longer, and eliminated
C12_RowsReplaced ==
  /\ sPhase = "solved"
  /\ Len(sCall.A) = 2
  /\ \A i \in 1..2 : Len(sA[i]) = 3
  /\ sA[2][1] # sCall.A[2][1]

(***************************************************************************)
(* Claims about the range of the analysis parameters.                      *)
(***************************************************************************)
tstopOf(c) == c.analyses.tran.tstop

\* C13: a transient request with tstop <= 0 is rejected with an error, at
\* parse time or when simulateTRAN starts: no time step is solved and no
\* transient result is returned.
C13_StopTimeRejected ==
  (tphase # "idle" /\ tckt.analyses.tran # NULL /\ RLe(tstopOf(tckt), <<0, 1>>)) =>
    tphase = "threw"

\* tstop = 0: a time step is solved and a result of one point is returned
C13_ZeroStopReturns ==
  /\ tphase = "returned" /\ tckt.analyses.tran # NULL
  /\ tstopOf(tckt) = <<0, 1>>
  /\ result # NULL /\ Len(result.times) = 1

\* tstop < 0: a result is returned
C13_NegativeStopReturns ==
  /\ tphase = "returned" /\ tckt.analyses.tran # NULL
  /\ RLt(tstopOf(tckt), <<0, 1>>)
  /\ result # NULL

acOf(c) == c.analyses.ac

nonPositiveSweep(c) ==
  acOf(c) # NULL /\ (RLe(acOf(c).f1, <<0, 1>>) \/ RLe(acOf(c).f2, <<0, 1>>))

\* nothing of a sweep was assembled, solved or returned
nothingSwept == acK = 1 /\ acSys = zeroSystem(0) /\ acResult = NULL

\* C14: an AC request with f1 <= 0 or f2 <= 0 is rejected with an error and
\* no AC result, in the dec and in the lin mode alike: no frequency point is
\* assembled or solved.
C14_FrequenciesRejected ==
  (acPhase # "idle" /\ nonPositiveSweep(acCkt)) =>
    (acPhase = "threw" /\ acErr = ".ac frequencies must be > 0" /\ nothingSwept)

\* the dec half of C14
C14_DecRejected ==
  (acPhase # "idle" /\ nonPositiveSweep(acCkt) /\ acOf(acCkt).mode = "dec") =>
    (acPhase = "threw" /\ acErr = ".ac frequencies must be > 0" /\ nothingSwept)

\* a dec sweep from 0 that was rejected
C14_DecFromZero ==
  /\ acPhase = "threw" /\ acOf(acCkt).mode = "dec" /\ acOf(acCkt).f1 = <<0, 1>>

\* a lin sweep from -1 to 0 that returned a result of three points
C14_LinReturns ==
  /\ acPhase = "returned" /\ acOf(acCkt) # NULL
  /\ acOf(acCkt).mode = "lin"
  /\ acOf(acCkt).f1 = <<-1, 1>> /\ acOf(acCkt).f2 = <<0, 1>>
  /\ acResult # NULL /\ Len(acResult.freqs) = 3

(***************************************************************************)
(* Claims about the assembly.                                              *)
(***************************************************************************)
\* C15: every row and column index a stamping primitive touches in an AC or
\* a transient assembly, and every index at which the solution is read,
\* lies in [0, Nvar): no stamp meets a missing row, none writes outside the
\* Nvar rows of Nvar entries and the Nvar entries of b.
C15_IndicesInRange ==
  stKind # "none" =>
    /\ stSys.err # "row missing" /\ stPermuted.err # "row missing"
    /\ wellShaped(stSys, Nvar(stCkt))
    /\ wellShaped(stPermuted, Nvar(stCkt))
    /\ readIndices(stCkt) \subseteq 0..(Nvar(stCkt) - 1)

\* a transient assembly of six kinds of elements whose source stamp wrote
\* the last row and the last entry of b
C15_TranAssembled ==
  /\ stKind = "tran" /\ stSys.err = "none"
  /\ Len(fixedOrder(stCkt)) = 6
  /\ \E j \in 1..Nvar(stCkt) : stSys.A[Nvar(stCkt)][j] # CZero
  /\ stSys.b[Nvar(stCkt)] # CZero

\* an AC assembly with a source, a resistor, an inductor and a capacitor
C15_ACAssembled ==
  /\ stKind = "ac" /\ stSys.err = "none"
  /\ Len(stCkt.L) = 1 /\ Len(stCkt.C) = 1
  /\ stSys.b[Nvar(stCkt)] # CZero

\* C16: in exact arithmetic the stamps of the elements of a transient
\* iterate, applied in any permutation, give the same A and b (and the same
\* diode linearization) as the order R, C, L, S, V, D of the code.
C16_OrderIndependent == stKind = "tran" => stPermuted = stSys

\* an assembly of six kinds of elements in the reversed order, with nonzero
\* entries in b from the capacitor, the inductor, the source and the diode
C16_Reversed ==
  /\ stKind = "tran"
  /\ Len(stOrder) = 6
  /\ \A k \in 1..6 : stOrder[k] = 7 - k
  /\ stCkt.C[1].vPrev # 0
  /\ \A i \in 1..Nvar(stCkt) : stSys.b[i] # CZero

(***************************************************************************)
(* Claims about the circuit the parser returns.                            *)
(***************************************************************************)
\* C17: no circuit that parseNetlist returns holds two element records with
\* the same instance name: a repeated name is rejected or de-duplicated.
C17_UniqueNames ==
  phase \in {"ac", "tran", "done"} => Cardinality(elementNames(ckt)) = elementCount(ckt)

\* a returned circuit with two resistors of the name R1
C17_TwoOfAName ==
  /\ phase \in {"ac", "tran", "done"}
  /\ Len(ckt.R) = 2
  /\ ckt.R[1].name = ckt.R[2].name


(***************************************************************************)
(* Claims about the Newton loop and the state update of a time step.       *)
(***************************************************************************)
\* C18: every time step runs between 1 and 20 assemble-and-solve iterations
\* (iter is the index of the last one), and a step whose loop stopped before
\* the 20th iteration ended on an iteration in which no switch changed state
\* and every component of the solution moved by less than 1e-6 from the
\* vector used for linearization.
C18_NewtonLoop ==
  /\ iter \in 0..MAX_ITERS
  /\ tphase = "accept" =>
       /\ iter < MAX_ITERS
       /\ obs.before # <<>> \/ Len(tckt.S) = 0
       /\ iter < MAX_ITERS - 1 => ~obs.switched /\ obs.small

\* C19: the solution of an accepted step, which is recorded and used for the
\* state update, was obtained from a matrix assembled with the switch states
\* in force when the step is accepted: the last iteration toggled no switch.
C19_RecordedTopology ==
  tphase = "accept" =>
    /\ ~obs.switched
    /\ \A i \in 1..Len(tckt.S) : obs.before[i] = tckt.S[i].isOn

\* the voltage across an element in the solution of the step being accepted
acceptedVoltage(e) == nodeVoltage(x, e.n1) - nodeVoltage(x, e.n2)

\* the current of a companion [G, Ieq] at the voltage v
companionCurrent(k, v) == RAdd(RMul(k.G, RInt(v)), k.Ieq)

\* the last entry of a series
lastOf(series) == series[Len(series)]

\* C20: the state update that ends a time step leaves in every capacitor's
\* vPrev and every diode's vdPrev the element's voltage in the accepted
\* solution and in every inductor's iPrev the inductor current of the step,
\* computed with the conductance Gl that was stamped; the capacitor and
\* inductor currents recorded for the step are computed from the vPrev and
\* iPrev the previous step left, so recording precedes the update.
C20_StateUpdate ==
  [][(tphase = "accept" /\ tphase' = "loop") =>
       /\ \A i \in 1..Len(tckt.C) : tckt'.C[i].vPrev = acceptedVoltage(tckt.C[i])
       /\ \A i \in 1..Len(tckt.D) :
            tckt'.D[i].vdPrev = nodeVoltage(x, tckt.D[i].nPlus)
                                - nodeVoltage(x, tckt.D[i].nMinus)
       /\ \A i \in 1..Len(tckt.L) :
            tckt'.L[i].iPrev =
              companionCurrent(inductorCompanion(impl, tckt.L[i], stepDt),
                               acceptedVoltage(tckt.L[i]))
       /\ Len(times') > Len(times) =>
            /\ \A i \in 1..Len(tckt.C) :
                 lastOf(elementCurrents'[tckt.C[i].name]) =
                   companionCurrent(capacitorCompanion(impl, tckt.C[i], stepDt),
                                    acceptedVoltage(tckt.C[i]))
            /\ \A i \in 1..Len(tckt.L) :
                 lastOf(elementCurrents'[tckt.L[i].name]) =
                   companionCurrent(inductorCompanion(impl, tckt.L[i], stepDt),
                                    acceptedVoltage(tckt.L[i]))]_vars

\* two points are recorded, the second from the state the first step left:
\* a charged capacitor, an inductor that carries current, a biased diode
C20_SecondStepUpdated ==
  /\ tphase = "loop"
  /\ idx > 2
  /\ Len(times) >= 2
  /\ Len(tckt.C) > 0 /\ tckt.C[1].vPrev # 0
  /\ Len(tckt.L) > 0 /\ tckt.L[1].iPrev # <<0, 1>>
  /\ Len(tckt.D) > 0 /\ tckt.D[1].vdPrev # 0
  /\ Len(elementCurrents["L1"]) >= 2
  /\ elementCurrents["L1"][2] # elementCurrents["L1"][1]

(***************************************************************************)
(* Claims about the diode linearization.                                   *)
(***************************************************************************)
\* an assembly that is followed by a solve
AssembledAndSolved == tphase = "newton" /\ ~resp.singular

\* the guess the diodes start from: vdPrev on iteration 0, the voltage of
\* the preceding iterate afterwards
C21_SeededFromIterate ==
  [][AssembledAndSolved =>
       \A i \in 1..Len(tckt.D) :
         obs'.lin[i].seed =
           IF iter = 0 THEN tckt.D[i].vdPrev
           ELSE nodeVoltage(x, tckt.D[i].nPlus) - nodeVoltage(x, tckt.D[i].nMinus)]_vars

\* C21: in every assembly each diode is linearized from vdPrev on Newton
\* iteration 0 and from v(nPlus) - v(nMinus) of the preceding iterate on
\* every later iteration, and the value the exponential is called with lies
\* in [-1.0 V, 0.8 V].
C21_DiodeLinearization ==
  [][AssembledAndSolved =>
       \A i \in 1..Len(tckt.D) :
         /\ obs'.lin[i].seed =
              IF iter = 0 THEN tckt.D[i].vdPrev
              ELSE nodeVoltage(x, tckt.D[i].nPlus) - nodeVoltage(x, tckt.D[i].nMinus)
         /\ obs'.lin[i].expv \in -1000000..800000]_vars

(***************************************************************************)
(* Claims about the stamping primitives.                                   *)
(***************************************************************************)
\* v when the condition holds, else 0
when(cond, v) == IF cond THEN v ELSE CZero

\* the amount the listed writes of a call add to A at the positions r, c
\* (i, j: the positions of n1, n2; k: the position of the branch; a ground
\* position is 0 and matches no row or column)
listedA(op, v, r, c) ==
  LET i == op.n1
      j == op.n2
      k == PrimN
      one == COne
  IN  IF op.kind = "admittance"
        THEN CAdd(CAdd(when(i >= 1 /\ r = i /\ c = i, v), when(j >= 1 /\ r = j /\ c = j, v)),
                  CAdd(when(i >= 1 /\ j >= 1 /\ r = i /\ c = j, CNeg(v)),
                       when(i >= 1 /\ j >= 1 /\ r = j /\ c = i, CNeg(v))))
      ELSE IF op.kind = "voltage"
        THEN CAdd(CAdd(when(i >= 1 /\ r = i /\ c = k, one), when(i >= 1 /\ r = k /\ c = i, one)),
                  CAdd(when(j >= 1 /\ r = j /\ c = k, CNeg(one)),
                       when(j >= 1 /\ r = k /\ c = j, CNeg(one))))
      ELSE CZero

\* the amount the listed writes add to b at the position r
listedB(op, v, r) ==
  IF op.kind = "current"
    THEN CAdd(when(op.n1 >= 1 /\ r = op.n1, CNeg(v)), when(op.n2 >= 1 /\ r = op.n2, v))
  ELSE IF op.kind = "voltage" THEN when(r = PrimN, v)
  ELSE CZero

\* the system M with the listed amounts added, everything else as it was
listed(M, op, v) ==
  [A |-> [r \in 1..PrimN |-> [c \in 1..PrimN |-> CAdd(M.A[r][c], listedA(op, v, r, c))]],
   b |-> [r \in 1..PrimN |-> CAdd(M.b[r], listedB(op, v, r))],
   err |-> M.err]

\* the last call did the listed writes and nothing else
StampedAsListed == prOp.kind # "none" => prSys = listed(prPrev, prOp, CReal(PrimValue))

\* a second call of the last call equals the one call with twice the value
TwiceIsDouble ==
  applyStamp(prSys, prOp) =
    listed(prPrev, prOp, CReal(RMul(<<2, 1>>, PrimValue)))

\* C22 as stated: every call does the listed writes, and calling any of the
\* three primitives twice equals calling it once with twice the value
C22_TwiceAnyPrimitive ==
  prOp.kind # "none" => StampedAsListed /\ TwiceIsDouble

\* C22: each real stamping primitive adds the listed amounts to the listed
\* entries of A and b, on top of what is stored, skips the rows and columns
\* of ground and changes nothing else (net zero for an admittance with
\* n1 = n2); an admittance or a current stamped twice equals one stamp of
\* twice the value, and a voltage source stamped twice leaves twice the
\* listed amounts, the entries 1 and -1 included.
C22_StampEffects ==
  prOp.kind # "none" =>
    /\ StampedAsListed
    /\ prOp.kind \in {"admittance", "current"} => TwiceIsDouble
    /\ applyStamp(prSys, prOp) = listed(prSys, prOp, CReal(PrimValue))

\* a voltage source between two nodes stamped on a system that already
\* holds an admittance between them
C22_SourceOverAdmittance ==
  /\ prOp = [kind |-> "voltage", n1 |-> 1, n2 |-> 2]
  /\ prPrev.A[1][2] # CZero
  /\ prSys.A[1][2] = prPrev.A[1][2]
  /\ prSys.A[1][3] = COne /\ prSys.A[3][2] = CNeg(COne)
  /\ prSys.b[3] = CReal(PrimValue)

(***************************************************************************)
(* Claims about the solution the solvers return.                           *)
(***************************************************************************)
\* row i of A * x for the system the solver was called with
productRow(i) == rowSum(sCall.A[i], sX, 1, Len(sX))

\* C23: whenever the solver returns, the returned x satisfies A * x = b for
\* the matrix and the right-hand side it was called with, in exact
\* arithmetic; a row whose multiplier is below eps is skipped without
\* changing x.
C23_SolutionSatisfiesSystem ==
  sPhase = "solved" =>
    \A i \in 1..Len(sX) : productRow(i) = sCall.b[i]

(***************************************************************************)
(* Claims about the waveform evaluators.                                   *)
(***************************************************************************)
\* the cycle number k = floor((t - Td)/Period) and the time tc within it
cycleOf(p, t) == RFloor(RDiv(RSub(t, p.td), p.period))
withinCycle(p, t) == RSub(RSub(t, p.td), RMul(RInt(cycleOf(p, t)), p.period))
\* t lies in one of the Ncycles cycles of the pulse train
inTrain(p, t) == RLe(p.td, t) /\ ~atLeast(cycleOf(p, t), p.ncycles)
between(v, a, b) == RLe(RMin(a, b), v) /\ RLe(v, RMax(a, b))
pulseEvaluated == wSrc.kind = "pulse evaluated"

\* the parts of C24 that do not depend on how the edges and the period are read
pulseLevels(p, t, v) ==
  LET tc == withinCycle(p, t)
      fallStart == RAdd(p.tr, p.ton)
      fallEnd == RAdd(fallStart, p.tf)
  IN  /\ RLt(t, p.td) => v = p.v1
      /\ (RLe(p.td, t) /\ atLeast(cycleOf(p, t), p.ncycles)) => v = p.v1
      /\ (p.ncycles # Infinity /\ RLe(RAdd(p.td, RMul(p.ncycles, p.period)), t)) => v = p.v1
      /\ (inTrain(p, t) /\ RLe(p.tr, tc) /\ RLt(tc, fallStart)) => v = p.v2
      /\ (inTrain(p, t) /\ RLe(fallEnd, tc)) => v = p.v1
      /\ between(v, p.v1, p.v2)

\* on the edges the value is on the line through the start level whose slope
\* is the level difference over the given rise and fall times
pulseEdges(p, t, v, rise, fall) ==
  LET tc == withinCycle(p, t)
      fallStart == RAdd(p.tr, p.ton)
      fallEnd == RAdd(fallStart, p.tf)
  IN  /\ (inTrain(p, t) /\ RLt(tc, p.tr)) =>
            RMul(RSub(v, p.v1), rise) = RMul(RSub(p.v2, p.v1), tc)
      /\ (inTrain(p, t) /\ RLe(fallStart, tc) /\ RLt(tc, fallEnd)) =>
            RMul(RSub(v, p.v2), fall) = RMul(RSub(p.v1, p.v2), RSub(tc, fallStart))

\* C24 as stated: for every t, pulseValue returns V1 before Td and from cycle
\* Ncycles on, rises linearly from V1 to V2 on [0, Tr), holds V2 on
\* [Tr, Tr+Ton), falls linearly to V1 on [Tr+Ton, Tr+Ton+Tf) and holds V1 for
\* the rest of the period; the value lies between V1 and V2, and
\* value(t + Period) = value(t) while the cycle numbers of t and t + Period
\* are both below Ncycles.
C24_PulseAsStated ==
  pulseEvaluated =>
    /\ pulseLevels(wSrc.p, wT, wValue)
    /\ pulseEdges(wSrc.p, wT, wValue, wSrc.p.tr, wSrc.p.tf)
    /\ (~atLeast(cycleOf(wSrc.p, wT), wSrc.p.ncycles)
          /\ ~atLeast(cycleOf(wSrc.p, wT) + 1, wSrc.p.ncycles)) =>
            pulseValue(wSrc.p, RAdd(wT, wSrc.p.period)) = wValue

\* C24 (amended): as above, with the slope of an edge taken over
\* max(Tr, eps) and max(Tf, eps), and with value(t + Period) = value(t) for
\* t >= Td while the cycles of t and t + Period are both below Ncycles.
C24_PulseValue ==
  pulseEvaluated =>
    /\ pulseLevels(wSrc.p, wT, wValue)
    /\ pulseEdges(wSrc.p, wT, wValue, RMax(wSrc.p.tr, EPS), RMax(wSrc.p.tf, EPS))
    /\ (inTrain(wSrc.p, wT) /\ inTrain(wSrc.p, RAdd(wT, wSrc.p.period))) =>
            pulseValue(wSrc.p, RAdd(wT, wSrc.p.period)) = wValue

\* a pulse was evaluated on the rising edge of its second cycle, part of the
\* way up, and the next cycle is still within the train
C24_RiseInSecondCycle ==
  /\ pulseEvaluated
  /\ cycleOf(wSrc.p, wT) = 1
  /\ inTrain(wSrc.p, RAdd(wT, wSrc.p.period))
  /\ RLt(RInt(0), withinCycle(wSrc.p, wT))
  /\ RLt(withinCycle(wSrc.p, wT), wSrc.p.tr)
  /\ wValue \notin {wSrc.p.v1, wSrc.p.v2}

nonDecreasing(pairs) == \A i \in 1..(Len(pairs) - 1) : RLe(pairs[i].t, pairs[i + 1].t)
pwlEvaluated == wSrc.kind = "pwl evaluated"

\* C25: for a PWL list with non-decreasing times (equal consecutive times
\* allowed) and every t, pwlValue returns v1 for t <= t1, vN for t >= tN, and
\* for ti < t <= ti+1 the point at t of the line through (ti, vi) and
\* (ti+1, vi+1); it returns vi at every breakpoint ti and never a value
\* outside the range of the two neighbouring points.
C25_PwlValue ==
  (pwlEvaluated /\ nonDecreasing(wSrc.pairs)) =>
    LET pairs == wSrc.pairs
        N == Len(pairs)
    IN  /\ RLe(wT, pairs[1].t) => wValue = pairs[1].v
        /\ RLe(pairs[N].t, wT) => wValue = pairs[N].v
        /\ \A i \in 1..(N - 1) :
             (RLt(pairs[i].t, wT) /\ RLe(wT, pairs[i + 1].t)) =>
               /\ RMul(RSub(wValue, pairs[i].v), RSub(pairs[i + 1].t, pairs[i].t))
                    = RMul(RSub(pairs[i + 1].v, pairs[i].v), RSub(wT, pairs[i].t))
               /\ between(wValue, pairs[i].v, pairs[i + 1].v)
        /\ \A i \in 1..N : wT = pairs[i].t => wValue = pairs[i].v

(***************************************************************************)
(* Claims about a second call of simulateTRAN.                             *)
(***************************************************************************)
\* the element state of a freshly parsed circuit
initialElementState(c) ==
  /\ \A i \in 1..Len(c.C) : c.C[i].vPrev = 0 /\ c.C[i].iPrev = <<0, 1>>
  /\ \A i \in 1..Len(c.L) : c.L[i].vPrev = 0 /\ c.L[i].iPrev = <<0, 1>>
  /\ \A i \in 1..Len(c.D) : c.D[i].vdPrev = 0
  /\ \A i \in 1..Len(c.S) : ~c.S[i].isOn

\* C26: a second call of simulateTRAN on the circuit of a first call returns
\* the times, node voltages and element currents of the first call, and every
\* call starts its first time point with vPrev = iPrev = vdPrev = 0 and all
\* switches off.
C26_RerunSameResult ==
  /\ (runNo = 2 /\ tphase = "returned") => result = firstResult
  /\ (tphase = "loop" /\ idx = 1) => initialElementState(tckt)

(***************************************************************************)
(* Claims about the assembled system.                                      *)
(***************************************************************************)
\* the positions of the branch variables of the sources
branchPositions(c) == {c.V[i].index + 1 : i \in 1..Len(c.V)}

\* the value of source i in the assembly: its level at the step's time, or
\* its phasor
assembledSourceValue(i) ==
  IF stKind = "tran" THEN CReal(RInt(sourceValue(stCkt.V[i], stCtx)))
  ELSE fromPolar(stCkt.V[i].acMag, stCkt.V[i].acPhaseDeg)

\* C27: after every assembly, of a Newton iterate of TRAN and of a frequency
\* point of AC, the matrix is symmetric, the entries whose row and column
\* both belong to branch variables of voltage sources are zero, and b at the
\* index of every voltage source is exactly that source's value.
C27_SymmetricSystem ==
  (stKind # "none" /\ stSys.err = "none") =>
    /\ \A r \in 1..Nvar(stCkt), c \in 1..Nvar(stCkt) : stSys.A[r][c] = stSys.A[c][r]
    /\ \A r \in branchPositions(stCkt), c \in branchPositions(stCkt) : stSys.A[r][c] = CZero
    /\ \A i \in 1..Len(stCkt.V) : stSys.b[stCkt.V[i].index + 1] = assembledSourceValue(i)

\* a transient assembly in the middle of a run, of six kinds of elements:
\* the source is at 5 V, an entry off the diagonal is nonzero and the current
\* stamps have written b
C27_MidRunAssembly ==
  /\ stKind = "tran" /\ stSys.err = "none"
  /\ Len(fixedOrder(stCkt)) = 6
  /\ \E i \in 1..Len(stCkt.V) : assembledSourceValue(i) = CReal(RInt(5))
  /\ \E r \in 1..Nvar(stCkt), c \in 1..Nvar(stCkt) :
        /\ r # c /\ r \notin branchPositions(stCkt) /\ c \notin branchPositions(stCkt)
        /\ stSys.A[r][c] # CZero
  /\ \E r \in 1..Nvar(stCkt) : r \notin branchPositions(stCkt) /\ stSys.b[r] # CZero

(***************************************************************************)
(* Claims about circuits without switches and diodes, and about switches.  *)
(***************************************************************************)
linearCircuit(c) == Len(c.S) = 0 /\ Len(c.D) = 0

controlFixed(c) == ~(Len(c.S) > 0 /\ c.S[1].n1 = c.S[1].ncPos)

\* switch i changed state in the iteration the observation is of
toggledIn(o, i) == i \in DOMAIN o.before /\ o.before[i] # o.after[i]

\* the thresholds of the switch are more than twice the tolerance apart
hysteresis(sw) ==
  sw.model # NULL /\ RLt(RAdd(sw.model.Voff, RMul(<<2, 1>>, CTRL_TOL)), sw.model.Von)

\* an iteration that follows another iteration of the same time step
LaterIteration == AssembledAndSolved /\ iter >= 1

switchStates(c) == [i \in 1..Len(c.S) |-> c.S[i].isOn]

\* C30: every switch is off when the first iteration of the first time step
\* of a freshly parsed circuit is assembled, and isOn is changed only by the
\* switch update that follows a solve, which leaves the states it reports:
\* parsing leaves every switch off, and the start of a time step, a solve
\* that throws, the recording, the state update of a step and the return
\* leave every switch as it was.
C30_SwitchState ==
  [][/\ tphase = "idle" => \A i \in 1..Len(tckt'.S) : ~tckt'.S[i].isOn
     /\ (tphase = "loop" /\ idx = 1 /\ tphase' = "newton") =>
          \A i \in 1..Len(tckt'.S) : ~tckt'.S[i].isOn
     /\ (tphase # "idle" /\ ~AssembledAndSolved) => switchStates(tckt') = switchStates(tckt)
     /\ AssembledAndSolved => switchStates(tckt') = obs'.after]_vars

\* the first iteration of the second time step is about to be assembled with
\* a switch that the first step turned on
C30_OnAcrossSteps ==
  /\ tphase = "newton" /\ idx = 2 /\ iter = 0
  /\ Len(tckt.S) = 1 /\ tckt.S[1].isOn

====
